---------------------------- MODULE Spec2Model ----------------------------
(***************************************************************************)
(* A model of CryptoAutoDeduct: the in-memory store (server/storage.ts),   *)
(* the REST handlers over it (server/routes.ts) and the client's approval  *)
(* workflow (client/src/contexts/DeductionContext.tsx).                    *)
(*                                                                         *)
(* JavaScript values are modelled as follows.  A string that the code      *)
(* inspects character by character (a wallet address, an :id path         *)
(* parameter, an amount) is a sequence of one-character strings; every     *)
(* other string                                                            *)
(* is a TLA+ string.  A Date is its time value, a natural number.  An      *)
(* object is a function from its own property names to values, so an       *)
(* absent property is a name outside DOMAIN.  A Map is the sequence of its *)
(* entries in insertion order.                                             *)
(***************************************************************************)
EXTENDS Integers, Sequences, FiniteSets, TLC

VARIABLES
    users,                \* MemStorage.users
    scheduledDeductions,  \* MemStorage.scheduledDeductions
    transactions,         \* MemStorage.transactions
    userId,               \* MemStorage.userId
    deductionId,          \* MemStorage.deductionId
    transactionId,        \* MemStorage.transactionId
    now,                  \* the server's clock, read by new Date()
    last,                 \* the call or request just served, with its answer
    issued,               \* history: the ids createScheduledDeduction returned, in order
    adapter,              \* the Web3Service singleton
    wallet,               \* the state of WalletProvider
    formData,             \* DeductionProvider: the draft
    showApprovalModal,    \* DeductionProvider: the confirmation step is open
    isSubmitting,         \* DeductionProvider
    notification,         \* the notification shown last
    invalidated,          \* history: the query keys invalidated so far
    flows,                \* the invocations of approveDeduction, each with its position
    cancels,              \* the invocations of cancelDeduction, each with its position
    connection,           \* the invocation of connectWallet in progress
    requests              \* the requests whose handlers run step by step

storeVars == <<users, scheduledDeductions, transactions,
               userId, deductionId, transactionId>>
clientVars == <<adapter, wallet, formData, showApprovalModal, isSubmitting,
                notification, invalidated, flows, cancels, connection>>
vars == <<users, scheduledDeductions, transactions,
          userId, deductionId, transactionId, now, last, issued,
          adapter, wallet, formData, showApprovalModal, isSubmitting,
          notification, invalidated, flows, cancels, connection, requests>>

----------------------------------------------------------------------------
(* Bounds of the model *)

MaxUsers == 1
MaxDeductions == 2
MaxTransactions == 2
MaxClock == 1
MaxFlows == 2
MaxCancels == 2
MaxSeeds == 1
MaxRequests == 2

----------------------------------------------------------------------------
(* Strings and objects *)

\* String.prototype.toLowerCase on one character
LowerChar(c) ==
    CASE c = "A" -> "a"
      [] c = "B" -> "b"
      [] c = "X" -> "x"
      [] OTHER -> c

\* String.prototype.toLowerCase
toLowerCase(s) == [i \in 1..Len(s) |-> LowerChar(s[i])]

\* { ...a, ...b }
Spread(a, b) ==
    [k \in (DOMAIN a) \cup (DOMAIN b) |-> IF k \in DOMAIN b THEN b[k] ELSE a[k]]

\* the value x || dflt of an optional string property
OrElse(obj, k, dflt) ==
    IF k \in DOMAIN obj /\ obj[k] # "" THEN obj[k] ELSE dflt

----------------------------------------------------------------------------
(* Map<number, T> *)

MapKeys(m) == {m[i].key : i \in 1..Len(m)}

MapHas(m, k) == k \in MapKeys(m)

MapGet(m, k) == m[CHOOSE i \in 1..Len(m) : m[i].key = k].value

MapSet(m, k, v) ==
    IF MapHas(m, k)
    THEN [i \in 1..Len(m) |-> IF m[i].key = k THEN [key |-> k, value |-> v] ELSE m[i]]
    ELSE Append(m, [key |-> k, value |-> v])

MapDelete(m, k) == SelectSeq(m, LAMBDA e : e.key # k)

MapValues(m) == [i \in 1..Len(m) |-> m[i].value]

Elems(s) == {s[i] : i \in 1..Len(s)}

\* undefined, as Map.prototype.get and Array.prototype.find return it
Undefined == [undefined |-> TRUE]


----------------------------------------------------------------------------
(* Values the calls and requests are drawn from *)

\* "0xa", "0xA" (one wallet in two casings) and "0xb" (another wallet)
WalletAddresses == {<<"0", "x", "a">>, <<"0", "x", "A">>, <<"0", "x", "b">>}

Dates == 0..1

\* InsertUser
UserData == {[username |-> "alice", password |-> "pw"]}

\* InsertScheduledDeduction without the optional status
DeductionBase(w) ==
    [userId |-> 1, walletAddress |-> w, amount |-> <<"1", "0">>, tokenSymbol |-> "ETH",
     tokenAddress |-> "", interval |-> "monthly", duration |-> "3", startDate |-> 1]

\* InsertScheduledDeduction: status absent, empty or given
DeductionData ==
    {DeductionBase(w) : w \in WalletAddresses}
    \cup {Spread(DeductionBase(w), [status |-> st]) :
            w \in WalletAddresses, st \in {"", "approved"}}

\* Partial<InsertScheduledDeduction>
DeductionUpdates ==
    {[status |-> "cancelled"], [amount |-> <<"2", "0">>], [walletAddress |-> <<"0", "x", "A">>]}

\* InsertTransaction without the optional date and txHash
TransactionBase(w) ==
    [deductionId |-> 1, walletAddress |-> w, amount |-> <<"1", "0">>, tokenSymbol |-> "ETH",
     tokenAddress |-> "", status |-> "success"]

\* InsertTransaction: date and txHash absent or given
TransactionData ==
    {TransactionBase(w) : w \in WalletAddresses}
    \cup {Spread(TransactionBase(w), [date |-> d, txHash |-> "0xh1"]) :
            w \in WalletAddresses, d \in Dates}

----------------------------------------------------------------------------
(* MemStorage *)

\* getUser
getUser(id) ==
    IF MapHas(users, id) THEN MapGet(users, id) ELSE Undefined

\* getUserByUsername
getUserByUsername(username) ==
    LET found == SelectSeq(MapValues(users), LAMBDA u : u.username = username)
    IN  IF found = <<>> THEN Undefined ELSE Head(found)

\* the record createUser stores
NewUser(insertUser) == Spread(insertUser, [id |-> userId])

\* createUser
createUser(insertUser) ==
    /\ userId' = userId + 1
    /\ users' = MapSet(users, userId, NewUser(insertUser))

\* getScheduledDeductions comparing the addresses as they are
getScheduledDeductionsCaseSensitive(walletAddress) ==
    SelectSeq(MapValues(scheduledDeductions),
           LAMBDA d : d.walletAddress = walletAddress)

\* getScheduledDeductions
getScheduledDeductions(walletAddress) ==
    SelectSeq(MapValues(scheduledDeductions),
           LAMBDA d : toLowerCase(d.walletAddress) = toLowerCase(walletAddress))

\* getScheduledDeduction
getScheduledDeduction(id) ==
    IF MapHas(scheduledDeductions, id)
    THEN MapGet(scheduledDeductions, id) ELSE Undefined

\* the record without the default of status
NewDeductionWithoutDefault(deduction) ==
    Spread(deduction, [id |-> deductionId, createdAt |-> now])

\* the record createScheduledDeduction stores
NewDeduction(deduction) ==
    Spread(deduction, [id |-> deductionId, createdAt |-> now,
                       status |-> OrElse(deduction, "status", "pending")])

\* createScheduledDeduction reading the counter without advancing it
createScheduledDeductionNoIncrement(deduction) ==
    /\ deductionId' = deductionId
    /\ scheduledDeductions' =
           MapSet(scheduledDeductions, deductionId, NewDeduction(deduction))

\* createScheduledDeduction
createScheduledDeduction(deduction) ==
    /\ deductionId' = deductionId + 1
    /\ scheduledDeductions' =
           MapSet(scheduledDeductions, deductionId, NewDeduction(deduction))

\* updateScheduledDeduction stamping the record as createScheduledDeduction does
UpdatedDeductionRestamped(id, updates) ==
    Spread(Spread(MapGet(scheduledDeductions, id), updates), [createdAt |-> now])

\* the record updateScheduledDeduction stores for an existing id
UpdatedDeduction(id, updates) == Spread(MapGet(scheduledDeductions, id), updates)

\* updateScheduledDeduction: its return value
updateResult(id, updates) ==
    IF ~MapHas(scheduledDeductions, id) THEN Undefined
    ELSE UpdatedDeduction(id, updates)

\* updateScheduledDeduction: its effect
updateScheduledDeduction(id, updates) ==
    scheduledDeductions' =
        IF ~MapHas(scheduledDeductions, id) THEN scheduledDeductions
        ELSE MapSet(scheduledDeductions, id, UpdatedDeduction(id, updates))

\* deleteScheduledDeduction: its return value (Map.prototype.delete)
deleteResult(id) == MapHas(scheduledDeductions, id)

\* deleteScheduledDeduction by position: splice(findIndex(..), 1), which drops
\* the last entry when findIndex answers -1
deleteScheduledDeductionBySplice(id) ==
    scheduledDeductions' =
        IF MapHas(scheduledDeductions, id) THEN MapDelete(scheduledDeductions, id)
        ELSE SubSeq(scheduledDeductions, 1, Len(scheduledDeductions) - 1)

\* deleteScheduledDeduction: its effect
deleteScheduledDeduction(id) ==
    scheduledDeductions' = MapDelete(scheduledDeductions, id)

\* the comparator with its operands exchanged
CompareByDateAscending(a, b) == a.date - b.date

\* the comparator of getTransactions: b.date.getTime() - a.date.getTime()
CompareByDate(a, b) == b.date - a.date

\* Array.prototype.sort, which is stable: x goes behind every element that the
\* comparator does not order after it
RECURSIVE InsertSorted(_, _)
InsertSorted(sorted, x) ==
    IF sorted = <<>> THEN <<x>>
    ELSE IF CompareByDate(Head(sorted), x) <= 0
         THEN <<Head(sorted)>> \o InsertSorted(Tail(sorted), x)
         ELSE <<x>> \o sorted

RECURSIVE SortFrom(_, _)
SortFrom(acc, rest) ==
    IF rest = <<>> THEN acc
    ELSE SortFrom(InsertSorted(acc, Head(rest)), Tail(rest))

Sort(s) == SortFrom(<<>>, s)

\* getTransactions
getTransactions(walletAddress) ==
    Sort(SelectSeq(MapValues(transactions),
                LAMBDA tx : toLowerCase(tx.walletAddress) = toLowerCase(walletAddress)))

\* the record createTransaction stores
NewTransaction(transaction) ==
    Spread(transaction,
           [id |-> transactionId,
            date |-> IF "date" \in DOMAIN transaction THEN transaction.date ELSE now,
            txHash |-> OrElse(transaction, "txHash", "")])

\* createTransaction
createTransaction(transaction) ==
    /\ transactionId' = transactionId + 1
    /\ transactions' = MapSet(transactions, transactionId, NewTransaction(transaction))

----------------------------------------------------------------------------
(* The client: its state after construction *)

\* an absent record
None == [none |-> TRUE]

\* null, for a wallet address
NullAddress == <<"null">>

\* null, for a token address
NullToken == "null"

\* !v for a wallet address and for a string
NoAddress(a) == a = NullAddress \/ a = <<>>

NoString(v) == v = NullToken \/ v = ""

\* new Web3Service(): a handle is TRUE when it is set, FALSE when it is null
NewWeb3Service ==
    [provider |-> FALSE, signer |-> FALSE, deductionContract |-> FALSE,
     erc20Contract |-> FALSE, tokenAddress |-> NullToken, supportedTokens |-> <<>>]

\* the useState initial values of WalletProvider; balanceSymbol is the symbol
\* of balance. refreshing is the answer that a refreshBalance in progress
\* will set, "idle" when none is in progress.
InitialWallet ==
    [isConnected |-> FALSE, isConnecting |-> FALSE, address |-> NullAddress,
     network |-> "null", error |-> "null",
     balanceSymbol |-> NullToken, selectedToken |-> NullToken,
     refreshing |-> "idle"]

\* defaultFormData; the start date is tomorrow
defaultFormData ==
    [amount |-> <<>>, interval |-> "null", duration |-> "3", startDate |-> 1]

\* an invocation of approveDeduction that has not happened. Once invoked it
\* holds what its closure captured (address, formData, selectedToken,
\* selectedTokenSymbol), the outcome of scheduleDeduction, the two request
\* bodies and the two responses.
IdleFlow ==
    [pc |-> "idle", address |-> NullAddress, formData |-> defaultFormData,
     selectedToken |-> NullToken, selectedTokenSymbol |-> "ETH",
     scheduled |-> None, deduction |-> None, response |-> None,
     transaction |-> None, transactionResponse |-> None]

\* an invocation of cancelDeduction that has not happened. Once invoked it
\* holds its argument, the address of its closure, the outcome of the adapter's
\* cancelDeduction and the response to its DELETE.
IdleCancel ==
    [pc |-> "idle", id |-> 0, address |-> NullAddress, cancelled |-> None,
     response |-> None]

\* a request that has not arrived. Once its handler runs it holds the method,
\* the :id parameter and the body of the request, the id that parseInt made
\* of the parameter and, once sent, the response; created is history: the
\* store had issued that id when the request arrived.
IdleRequest ==
    [pc |-> "idle", method |-> "none", param |-> <<>>, body |-> None, id |-> 0,
     created |-> FALSE, response |-> None]

\* no connectWallet is in progress
NotConnecting == [pc |-> "idle", account |-> NullAddress, network |-> "null"]

----------------------------------------------------------------------------
(* The store driven directly through its methods *)

\* new MemStorage()
Init ==
    /\ users = <<>>
    /\ scheduledDeductions = <<>>
    /\ transactions = <<>>
    /\ userId = 1
    /\ deductionId = 1
    /\ transactionId = 1
    /\ now = 0
    /\ last = [op |-> "none"]
    /\ issued = <<>>
    /\ adapter = NewWeb3Service
    /\ wallet = InitialWallet
    /\ formData = defaultFormData
    /\ showApprovalModal = FALSE
    /\ isSubmitting = FALSE
    /\ notification = None
    /\ invalidated = {}
    /\ flows = [f \in 1..MaxFlows |-> IdleFlow]
    /\ cancels = [c \in 1..MaxCancels |-> IdleCancel]
    /\ connection = NotConnecting
    /\ requests = [r \in 1..MaxRequests |-> IdleRequest]

\* time passes
Tick ==
    /\ now < MaxClock
    /\ now' = now + 1
    /\ last' = [op |-> "none"]
    /\ UNCHANGED <<storeVars, issued>>
    /\ UNCHANGED <<clientVars, requests>>

CallCreateUser ==
    \E u \in UserData :
        /\ userId <= MaxUsers
        /\ createUser(u)
        /\ last' = [op |-> "createUser", arg |-> u, ret |-> NewUser(u)]
        /\ UNCHANGED <<scheduledDeductions, transactions, deductionId,
                       transactionId, now, issued>>
        /\ UNCHANGED <<clientVars, requests>>

CallGetUserByUsername ==
    \E n \in {"alice", "Alice"} :
        /\ last' = [op |-> "getUserByUsername", arg |-> n, ret |-> getUserByUsername(n)]
        /\ UNCHANGED <<storeVars, now, issued, requests>>
        /\ UNCHANGED <<clientVars, requests>>

CallGetScheduledDeductions ==
    \E a \in WalletAddresses :
        /\ last' = [op |-> "getScheduledDeductions", arg |-> a,
                    ret |-> getScheduledDeductions(a)]
        /\ UNCHANGED <<storeVars, now, issued, requests>>
        /\ UNCHANGED <<clientVars, requests>>

CallGetScheduledDeduction ==
    \E id \in 1..(MaxDeductions + 1) :
        /\ last' = [op |-> "getScheduledDeduction", arg |-> id,
                    ret |-> getScheduledDeduction(id)]
        /\ UNCHANGED <<storeVars, now, issued, requests>>
        /\ UNCHANGED <<clientVars, requests>>

CallCreateScheduledDeduction(Data) ==
    \E d \in Data :
        /\ deductionId <= MaxDeductions
        /\ createScheduledDeduction(d)
        /\ last' = [op |-> "createScheduledDeduction", arg |-> d,
                    ret |-> NewDeduction(d)]
        /\ issued' = Append(issued, NewDeduction(d).id)
        /\ UNCHANGED <<users, transactions, userId, transactionId, now>>
        /\ UNCHANGED <<clientVars, requests>>

CallUpdateScheduledDeduction(Updates) ==
    \E id \in 1..(MaxDeductions + 1), u \in Updates :
        /\ updateScheduledDeduction(id, u)
        /\ last' = [op |-> "updateScheduledDeduction", arg |-> id, updates |-> u,
                    ret |-> updateResult(id, u)]
        /\ UNCHANGED <<users, transactions, userId, deductionId, transactionId,
                       now, issued>>
        /\ UNCHANGED <<clientVars, requests>>

CallDeleteScheduledDeduction ==
    \E id \in 1..(MaxDeductions + 1) :
        /\ deleteScheduledDeduction(id)
        /\ last' = [op |-> "deleteScheduledDeduction", arg |-> id,
                    ret |-> deleteResult(id)]
        /\ UNCHANGED <<users, transactions, userId, deductionId, transactionId,
                       now, issued>>
        /\ UNCHANGED <<clientVars, requests>>

CallGetTransactions ==
    \E a \in WalletAddresses :
        /\ last' = [op |-> "getTransactions", arg |-> a, ret |-> getTransactions(a)]
        /\ UNCHANGED <<storeVars, now, issued, requests>>
        /\ UNCHANGED <<clientVars, requests>>

CallCreateTransaction(Data) ==
    \E t \in Data :
        /\ transactionId <= MaxTransactions
        /\ createTransaction(t)
        /\ last' = [op |-> "createTransaction", arg |-> t, ret |-> NewTransaction(t)]
        /\ UNCHANGED <<users, scheduledDeductions, userId, deductionId, now, issued>>
        /\ UNCHANGED <<clientVars, requests>>

\* Deductions created, moved to another address and deleted, beside users and
\* transactions
StoreNext ==
    \/ Tick
    \/ CallCreateUser
    \/ CallGetUserByUsername
    \/ CallGetScheduledDeductions
    \/ CallGetScheduledDeduction
    \/ CallCreateScheduledDeduction({DeductionBase(w) : w \in WalletAddresses})
    \/ CallUpdateScheduledDeduction({[walletAddress |-> <<"0", "x", "A">>]})
    \/ CallDeleteScheduledDeduction
    \/ CallCreateTransaction({Spread(TransactionBase(<<"0", "x", "a">>), [date |-> 0])})

StoreSpec == Init /\ [][StoreNext]_vars

\* Deductions of one wallet created with every kind of status and updated
UpdateNext ==
    \/ Tick
    \/ CallGetScheduledDeduction
    \/ CallCreateScheduledDeduction(
           {d \in DeductionData : d.walletAddress = <<"0", "x", "b">>})
    \/ CallUpdateScheduledDeduction(
           {u \in DeductionUpdates : "walletAddress" \notin DOMAIN u})

UpdateSpec == Init /\ [][UpdateNext]_vars

\* Transactions created and listed
TransactionNext ==
    \/ Tick
    \/ CallCreateTransaction(TransactionData)
    \/ CallGetTransactions

TransactionSpec == Init /\ [][TransactionNext]_vars

----------------------------------------------------------------------------
(* The request bodies and path parameters of the REST API *)

\* a JSON value that is not a string, such as 5 or null
NotAString == <<"number">>

IsString(v) == v # NotAString

IsDigit(c) == c \in {"0", "1", "2", "3", "4", "5", "6", "7", "8", "9"}

DigitValue(c) ==
    CASE c = "0" -> 0 [] c = "1" -> 1 [] c = "2" -> 2 [] c = "3" -> 3
      [] c = "4" -> 4 [] c = "5" -> 5 [] c = "6" -> 6 [] c = "7" -> 7
      [] c = "8" -> 8 [] c = "9" -> 9

DigitChar(n) == CHOOSE c \in {"0", "1", "2", "3", "4", "5", "6", "7", "8", "9"} :
                    DigitValue(c) = n

\* NaN, as parseInt returns it
NaN == [nan |-> TRUE, value |-> 0]

RECURSIVE ParseDigits(_, _)
ParseDigits(s, acc) ==
    IF s = <<>> \/ ~IsDigit(Head(s)) THEN acc
    ELSE ParseDigits(Tail(s), acc * 10 + DigitValue(Head(s)))

\* parseInt(req.params.id) of a parameter without white space, sign or 0x
\* prefix: the number its leading digits spell, NaN when it has none
parseInt(s) ==
    IF s = <<>> \/ ~IsDigit(Head(s)) THEN NaN
    ELSE [nan |-> FALSE, value |-> ParseDigits(s, 0)]

\* isNaN
isNaN(n) == n.nan

\* :id path parameters: "1", "2", .. and one past the last id, "1x" and "x"
IdParams ==
    {<<DigitChar(k)>> : k \in 1..(MaxDeductions + 1)} \cup {<<"1", "x">>, <<"x">>}

\* bodies of POST /api/deductions: complete ones, one with a status, one with
\* properties the schema omits, one without amount, one with a number for
\* walletAddress
PostDeductionBodies ==
    {DeductionBase(w) : w \in WalletAddresses}
    \cup {Spread(DeductionBase(<<"0", "x", "b">>), [status |-> "approved"]),
          Spread(DeductionBase(<<"0", "x", "b">>), [id |-> 9, createdAt |-> 9]),
          [k \in (DOMAIN DeductionBase(<<"0", "x", "a">>)) \ {"amount"} |->
               DeductionBase(<<"0", "x", "a">>)[k]],
          DeductionBase(NotAString)}

\* bodies of PATCH /api/deductions/:id
PatchDeductionBodies ==
    {[status |-> "cancelled"], [walletAddress |-> NotAString]}

\* bodies of POST /api/transactions: a complete one and one without amount
PostTransactionBodies ==
    {TransactionBase(<<"0", "x", "a">>),
     [k \in (DOMAIN TransactionBase(<<"0", "x", "a">>)) \ {"amount"} |->
          TransactionBase(<<"0", "x", "a">>)[k]]}

\* the properties insertScheduledDeductionSchema keeps, and those it requires
\* (the notNull columns without a default)
DeductionSchemaKeys ==
    {"userId", "walletAddress", "amount", "tokenSymbol", "tokenAddress",
     "interval", "duration", "startDate", "status"}

DeductionSchemaRequired ==
    {"userId", "walletAddress", "amount", "interval", "duration", "startDate"}

\* the properties insertTransactionSchema keeps, and those it requires
TransactionSchemaKeys ==
    {"deductionId", "walletAddress", "amount", "tokenSymbol", "tokenAddress",
     "status", "date", "txHash"}

TransactionSchemaRequired == {"deductionId", "walletAddress", "amount", "status"}

\* the issues of schema.parse(body): the required properties that are missing
\* and the text columns that hold no string
ZodIssues(body, required) ==
    (required \ DOMAIN body)
    \cup {k \in {"walletAddress"} \cap DOMAIN body : ~IsString(body[k])}

\* the value of schema.parse(body) when there is no issue: unknown properties
\* are stripped
ZodParsed(body, keys) == [k \in (DOMAIN body) \cap keys |-> body[k]]

\* fromZodError(error).message
ValidationMessage(issues) == [message |-> "Validation error", at |-> issues]

\* getScheduledDeductions throws a TypeError when a stored walletAddress has
\* no toLowerCase
getScheduledDeductionsThrows ==
    \E i \in 1..Len(scheduledDeductions) :
        ~IsString(scheduledDeductions[i].value.walletAddress)

----------------------------------------------------------------------------
(* The handlers of server/routes.ts; each runs to its response *)

\* GET /api/deductions/:walletAddress
GetDeductions(walletAddress) ==
    /\ last' = IF walletAddress = <<>>
               THEN [op |-> "GET /deductions", param |-> walletAddress, status |-> 400,
                     json |-> [message |-> "Wallet address is required"]]
               ELSE IF getScheduledDeductionsThrows
               THEN [op |-> "GET /deductions", param |-> walletAddress, status |-> 500,
                     json |-> [message |-> "Failed to fetch deductions"]]
               ELSE [op |-> "GET /deductions", param |-> walletAddress, status |-> 200,
                     json |-> getScheduledDeductions(walletAddress)]
    /\ UNCHANGED <<storeVars, now, issued, requests>>

\* POST /api/deductions that takes the next id before it validates the body
PostDeductionCountingFirst(body) ==
    LET issues == ZodIssues(body, DeductionSchemaRequired)
        deductionData == ZodParsed(body, DeductionSchemaKeys)
    IN  IF issues # {}
        THEN /\ last' = [op |-> "POST /deductions", body |-> body, status |-> 400,
                         json |-> ValidationMessage(issues)]
             /\ deductionId' = deductionId + 1
             /\ UNCHANGED <<users, scheduledDeductions, transactions, userId,
                            transactionId, now, issued>>
        ELSE /\ createScheduledDeduction(deductionData)
             /\ last' = [op |-> "POST /deductions", body |-> body, status |-> 201,
                         json |-> NewDeduction(deductionData)]
             /\ issued' = Append(issued, NewDeduction(deductionData).id)
             /\ UNCHANGED <<users, transactions, userId, transactionId, now>>

\* POST /api/deductions
PostDeduction(body) ==
    LET issues == ZodIssues(body, DeductionSchemaRequired)
        deductionData == ZodParsed(body, DeductionSchemaKeys)
    IN  IF issues # {}
        THEN /\ last' = [op |-> "POST /deductions", body |-> body, status |-> 400,
                         json |-> ValidationMessage(issues)]
             /\ UNCHANGED <<storeVars, now, issued, requests>>
        ELSE /\ createScheduledDeduction(deductionData)
             /\ last' = [op |-> "POST /deductions", body |-> body, status |-> 201,
                         json |-> NewDeduction(deductionData)]
             /\ issued' = Append(issued, NewDeduction(deductionData).id)
             /\ UNCHANGED <<users, transactions, userId, transactionId, now>>

\* PATCH /api/deductions/:id
PatchDeduction(param, body) ==
    LET id == parseInt(param)
    IN  /\ last' =
               IF isNaN(id)
               THEN [op |-> "PATCH /deductions", param |-> param, body |-> body,
                     status |-> 400, json |-> [message |-> "Invalid deduction ID"]]
               ELSE IF getScheduledDeduction(id.value) = Undefined
               THEN [op |-> "PATCH /deductions", param |-> param, body |-> body,
                     status |-> 404, json |-> [message |-> "Deduction not found"]]
               ELSE [op |-> "PATCH /deductions", param |-> param, body |-> body,
                     status |-> 200, json |-> updateResult(id.value, body)]
        /\ IF isNaN(id) \/ getScheduledDeduction(id.value) = Undefined
           THEN UNCHANGED scheduledDeductions
           ELSE updateScheduledDeduction(id.value, body)
        /\ UNCHANGED <<users, transactions, userId, deductionId, transactionId,
                       now, issued>>

\* DELETE /api/deductions/:id without the lookup before the delete
DeleteDeductionWithoutLookup(param) ==
    LET id == parseInt(param)
    IN  /\ last' =
               IF isNaN(id)
               THEN [op |-> "DELETE /deductions", param |-> param, status |-> 400,
                     json |-> [message |-> "Invalid deduction ID"]]
               ELSE IF deleteResult(id.value)
               THEN [op |-> "DELETE /deductions", param |-> param, status |-> 204,
                     json |-> Undefined]
               ELSE [op |-> "DELETE /deductions", param |-> param, status |-> 500,
                     json |-> [message |-> "Failed to delete deduction"]]
        /\ IF isNaN(id) THEN UNCHANGED scheduledDeductions
           ELSE deleteScheduledDeduction(id.value)
        /\ UNCHANGED <<users, transactions, userId, deductionId, transactionId,
                       now, issued>>

\* DELETE /api/deductions/:id that also removes the transactions of the deduction
DeleteDeductionCascading(param) ==
    LET id == parseInt(param)
        found == ~isNaN(id) /\ getScheduledDeduction(id.value) # Undefined
    IN  /\ last' =
               IF isNaN(id)
               THEN [op |-> "DELETE /deductions", param |-> param, status |-> 400,
                     json |-> [message |-> "Invalid deduction ID"]]
               ELSE IF ~found
               THEN [op |-> "DELETE /deductions", param |-> param, status |-> 404,
                     json |-> [message |-> "Deduction not found"]]
               ELSE [op |-> "DELETE /deductions", param |-> param, status |-> 204,
                     json |-> Undefined]
        /\ IF found THEN deleteScheduledDeduction(id.value)
           ELSE UNCHANGED scheduledDeductions
        /\ transactions' =
               IF found
               THEN SelectSeq(transactions, LAMBDA e : e.value.deductionId # id.value)
               ELSE transactions
        /\ UNCHANGED <<users, userId, deductionId, transactionId, now, issued>>

\* DELETE /api/deductions/:id
DeleteDeduction(param) ==
    LET id == parseInt(param)
    IN  /\ last' =
               IF isNaN(id)
               THEN [op |-> "DELETE /deductions", param |-> param, status |-> 400,
                     json |-> [message |-> "Invalid deduction ID"]]
               ELSE IF getScheduledDeduction(id.value) = Undefined
               THEN [op |-> "DELETE /deductions", param |-> param, status |-> 404,
                     json |-> [message |-> "Deduction not found"]]
               ELSE IF deleteResult(id.value)
               THEN [op |-> "DELETE /deductions", param |-> param, status |-> 204,
                     json |-> Undefined]
               ELSE [op |-> "DELETE /deductions", param |-> param, status |-> 500,
                     json |-> [message |-> "Failed to delete deduction"]]
        /\ IF isNaN(id) \/ getScheduledDeduction(id.value) = Undefined
           THEN UNCHANGED scheduledDeductions
           ELSE deleteScheduledDeduction(id.value)
        /\ UNCHANGED <<users, transactions, userId, deductionId, transactionId,
                       now, issued>>

\* GET /api/transactions/:walletAddress
GetTransactions(walletAddress) ==
    /\ last' = IF walletAddress = <<>>
               THEN [op |-> "GET /transactions", param |-> walletAddress, status |-> 400,
                     json |-> [message |-> "Wallet address is required"]]
               ELSE [op |-> "GET /transactions", param |-> walletAddress, status |-> 200,
                     json |-> getTransactions(walletAddress)]
    /\ UNCHANGED <<storeVars, now, issued, requests>>

\* POST /api/transactions
PostTransaction(body) ==
    LET issues == ZodIssues(body, TransactionSchemaRequired)
        transactionData == ZodParsed(body, TransactionSchemaKeys)
    IN  IF issues # {}
        THEN /\ last' = [op |-> "POST /transactions", body |-> body, status |-> 400,
                         json |-> ValidationMessage(issues)]
             /\ UNCHANGED <<storeVars, now, issued, requests>>
        ELSE /\ createTransaction(transactionData)
             /\ last' = [op |-> "POST /transactions", body |-> body, status |-> 201,
                         json |-> NewTransaction(transactionData)]
             /\ UNCHANGED <<users, scheduledDeductions, userId, deductionId,
                            now, issued>>

\* requests arrive in any order; each handler runs to its response
ReqGetDeductions ==
    /\ \E a \in WalletAddresses : GetDeductions(a)
    /\ UNCHANGED <<clientVars, requests>>

ReqPostDeduction ==
    /\ deductionId <= MaxDeductions
    /\ \E b \in PostDeductionBodies : PostDeduction(b)
    /\ UNCHANGED <<clientVars, requests>>

ReqPatchDeduction ==
    /\ \E p \in IdParams, b \in PatchDeductionBodies : PatchDeduction(p, b)
    /\ UNCHANGED <<clientVars, requests>>

ReqDeleteDeduction ==
    /\ \E p \in IdParams : DeleteDeduction(p)
    /\ UNCHANGED <<clientVars, requests>>

ReqGetTransactions ==
    /\ \E a \in WalletAddresses : GetTransactions(a)
    /\ UNCHANGED <<clientVars, requests>>

ReqPostTransaction ==
    /\ transactionId <= MaxTransactions
    /\ \E b \in PostTransactionBodies : PostTransaction(b)
    /\ UNCHANGED <<clientVars, requests>>

Next ==
    \/ ReqGetDeductions
    \/ ReqPostDeduction
    \/ ReqPatchDeduction
    \/ ReqDeleteDeduction
    \/ ReqGetTransactions
    \/ ReqPostTransaction

Spec == Init /\ [][Next]_vars

----------------------------------------------------------------------------
(* The handlers of PATCH and DELETE step by step.  Each handler awaits the  *)
(* store twice, once for its lookup and once for its update or removal;    *)
(* the steps of the handlers of different requests run in any order.       *)

\* the :id parameters of the requests: the ids of the store and one more
HandledParams == {<<DigitChar(k)>> : k \in 1..(MaxDeductions + 1)}

\* the bodies of the PATCH requests
HandledBodies ==
    {[status |-> "cancelled"], [status |-> "paused", amount |-> <<"2", "0">>]}

\* res.status(status).json(json)
Response(status, json) == [status |-> status, json |-> json]

\* the handlers up to the answer of getScheduledDeduction: 400 for an id that
\* is no number, 404 for one the store does not have
Lookup(r, method, param, body) ==
    LET id == parseInt(param)
        request == [IdleRequest EXCEPT
                       !.method = method, !.param = param, !.body = body,
                       !.created = ~isNaN(id) /\ id.value \in Elems(issued)]
    IN  /\ requests[r].pc = "idle"
        /\ requests' = [requests EXCEPT ![r] =
               IF isNaN(id)
               THEN [request EXCEPT
                        !.pc = "answered",
                        !.response = Response(400, [message |-> "Invalid deduction ID"])]
               ELSE IF getScheduledDeduction(id.value) = Undefined
               THEN [request EXCEPT
                        !.pc = "answered", !.id = id.value,
                        !.response = Response(404, [message |-> "Deduction not found"])]
               ELSE [request EXCEPT !.pc = "found", !.id = id.value]]
        /\ UNCHANGED <<storeVars, now, last, issued>>
        /\ UNCHANGED clientVars

\* PATCH /api/deductions/:id arrives
PatchLookup(r) ==
    \E param \in HandledParams, body \in HandledBodies :
        Lookup(r, "PATCH", param, body)

\* a PATCH that merges its body into the record as it was created, a copy
\* that leaves out what other updates have written since
PatchUpdateOfStaleCopy(r) ==
    /\ requests[r].pc = "found"
    /\ requests[r].method = "PATCH"
    /\ scheduledDeductions' =
           IF ~MapHas(scheduledDeductions, requests[r].id) THEN scheduledDeductions
           ELSE MapSet(scheduledDeductions, requests[r].id,
                       Spread(Spread(MapGet(scheduledDeductions, requests[r].id),
                                     [status |-> "pending", amount |-> <<"1", "0">>]),
                              requests[r].body))
    /\ requests' = [requests EXCEPT
           ![r].pc = "answered",
           ![r].response =
               Response(200,
                   IF ~MapHas(scheduledDeductions, requests[r].id) THEN Undefined
                   ELSE Spread(Spread(MapGet(scheduledDeductions, requests[r].id),
                                      [status |-> "pending", amount |-> <<"1", "0">>]),
                               requests[r].body))]
    /\ UNCHANGED <<users, transactions, userId, deductionId, transactionId,
                   now, last, issued>>
    /\ UNCHANGED clientVars

\* PATCH /api/deductions/:id after the lookup: the update, and res.json with
\* what updateScheduledDeduction returned
PatchUpdate(r) ==
    /\ requests[r].pc = "found"
    /\ requests[r].method = "PATCH"
    /\ updateScheduledDeduction(requests[r].id, requests[r].body)
    /\ requests' = [requests EXCEPT
           ![r].pc = "answered",
           ![r].response = Response(200, updateResult(requests[r].id,
                                                      requests[r].body))]
    /\ UNCHANGED <<users, transactions, userId, deductionId, transactionId,
                   now, last, issued>>
    /\ UNCHANGED clientVars

\* DELETE /api/deductions/:id arrives
DeleteLookup(r) ==
    \E param \in HandledParams : Lookup(r, "DELETE", param, None)

\* a DELETE that answers 204 whatever deleteScheduledDeduction returned
DeleteRemoveAnswering204(r) ==
    /\ requests[r].pc = "found"
    /\ requests[r].method = "DELETE"
    /\ deleteScheduledDeduction(requests[r].id)
    /\ requests' = [requests EXCEPT
           ![r].pc = "answered",
           ![r].response = Response(204, Undefined)]
    /\ UNCHANGED <<users, transactions, userId, deductionId, transactionId,
                   now, last, issued>>
    /\ UNCHANGED clientVars

\* DELETE /api/deductions/:id after the lookup: the removal, 204 when
\* deleteScheduledDeduction returned true and 500 when it returned false
DeleteRemove(r) ==
    /\ requests[r].pc = "found"
    /\ requests[r].method = "DELETE"
    /\ deleteScheduledDeduction(requests[r].id)
    /\ requests' = [requests EXCEPT
           ![r].pc = "answered",
           ![r].response =
               IF deleteResult(requests[r].id) THEN Response(204, Undefined)
               ELSE Response(500, [message |-> "Failed to delete deduction"])]
    /\ UNCHANGED <<users, transactions, userId, deductionId, transactionId,
                   now, last, issued>>
    /\ UNCHANGED clientVars

\* deductions of one wallet, and a transaction of the first of them, are
\* created through the API
PostRecords ==
    \/ /\ deductionId <= MaxDeductions
       /\ PostDeduction(DeductionBase(<<"0", "x", "A">>))
       /\ UNCHANGED <<clientVars, requests>>
    \/ /\ transactionId = 1
       /\ PostTransaction(TransactionBase(<<"0", "x", "A">>))
       /\ UNCHANGED <<clientVars, requests>>

HandlerNext ==
    \/ PostRecords
    \/ \E r \in 1..MaxRequests : PatchLookup(r)
    \/ \E r \in 1..MaxRequests : PatchUpdate(r)
    \/ \E r \in 1..MaxRequests : DeleteLookup(r)
    \/ \E r \in 1..MaxRequests : DeleteRemove(r)

HandlerSpec == Init /\ [][HandlerNext]_vars

----------------------------------------------------------------------------
(* PATCH with bodies that name the columns the insert schema omits *)

\* bodies of PATCH /api/deductions/:id, among them one with an id and one
\* with a createdAt
PatchBodiesWithKeys ==
    PatchDeductionBodies \cup {[id |-> 2], [createdAt |-> 1]}

ReqPatchDeductionWithKeys ==
    /\ \E p \in IdParams, b \in PatchBodiesWithKeys : PatchDeduction(p, b)
    /\ UNCHANGED <<clientVars, requests>>

KeyNext ==
    \/ PostRecords
    \/ ReqPatchDeductionWithKeys
    \/ ReqDeleteDeduction

KeySpec == Init /\ [][KeyNext]_vars

----------------------------------------------------------------------------
(* The adapter, lib/web3.ts *)

\* the account MetaMask reports
Accounts == {<<"0", "x", "A">>}

\* the name of the chain MetaMask is on
Network == "maticmum"

\* the addresses of the entries TESTNET_TOKENS has for the connected chain,
\* Mumbai, in the order of the table: USDC, DAI and WMATIC
TokenTable == <<"0xt1", "0xdai", "0xwmatic">>

\* the token addresses a caller selects
TokenAddresses == {"0xt1"}

\* the hashes scheduleDeduction draws with Math.random
TxHashes == {"0xh1", "0xh2"}

\* the amounts typed into the form
Amounts == {<<>>, <<"1", "0">>}

\* Web3Service.connect with an account granted
connect ==
    [adapter EXCEPT !.provider = TRUE, !.signer = TRUE,
                    !.deductionContract = TRUE, !.supportedTokens = TokenTable]

\* Web3Service.disconnect
disconnect ==
    [adapter EXCEPT !.provider = FALSE, !.signer = FALSE,
                    !.deductionContract = FALSE, !.erc20Contract = FALSE]

\* Web3Service.setTokenAddress
setTokenAddress(tokenAddress) ==
    [adapter EXCEPT !.tokenAddress = tokenAddress,
                    !.erc20Contract = IF adapter.signer /\ ~NoString(tokenAddress)
                                      THEN TRUE ELSE @]

\* ethers.utils.parseUnits throws on a string that is no decimal number: one
\* that is empty, has a character other than a digit, a point or a leading
\* minus, has two points or no digit
IsDecimal(amount) ==
    /\ amount # <<>>
    /\ \A i \in 1..Len(amount) :
           IsDigit(amount[i]) \/ amount[i] = "." \/ (amount[i] = "-" /\ i = 1)
    /\ Cardinality({i \in 1..Len(amount) : amount[i] = "."}) <= 1
    /\ \E i \in 1..Len(amount) : IsDigit(amount[i])

\* the number of digits after the point
FractionLength(amount) ==
    IF \E i \in 1..Len(amount) : amount[i] = "."
    THEN Len(amount) - (CHOOSE i \in 1..Len(amount) : amount[i] = ".")
    ELSE 0

\* the decimals of the selected token: those of its entry in the token table
\* (USDC has 6), 18 when the supported tokens do not have it
decimals ==
    IF adapter.tokenAddress \in Elems(adapter.supportedTokens)
       /\ adapter.tokenAddress \in {"0xt1", "0xgusdc"}
    THEN 6 ELSE 18

\* Web3Service.isConnected
isConnected == adapter.provider /\ adapter.signer

\* scheduleDeduction that looks at the token before it looks at the session
scheduleDeductionTokenFirst(amount, hash) ==
    IF NoString(adapter.tokenAddress) \/ ~adapter.erc20Contract
    THEN [error |-> "No token selected. Please select a token for the deduction."]
    ELSE IF ~adapter.deductionContract \/ ~adapter.signer
    THEN [error |-> "Wallet not connected"]
    ELSE IF ~IsDecimal(amount)
    THEN [error |-> "invalid decimal value"]
    ELSE IF FractionLength(amount) > decimals
    THEN [error |-> "fractional component exceeds decimals"]
    ELSE [txHash |-> hash]

\* Web3Service.scheduleDeduction: the hash it resolves with, or the error it
\* rejects with
scheduleDeduction(amount, hash) ==
    IF ~adapter.deductionContract \/ ~adapter.signer
    THEN [error |-> "Wallet not connected"]
    ELSE IF NoString(adapter.tokenAddress) \/ ~adapter.erc20Contract
    THEN [error |-> "No token selected. Please select a token for the deduction."]
    ELSE IF ~IsDecimal(amount)
    THEN [error |-> "invalid decimal value"]
    ELSE IF FractionLength(amount) > decimals
    THEN [error |-> "fractional component exceeds decimals"]
    ELSE [txHash |-> hash]

\* Web3Service.cancelDeduction: true, or the error it rejects with
cancelDeduction(id) ==
    IF ~adapter.deductionContract \/ ~adapter.signer
    THEN [error |-> "Wallet not connected"]
    ELSE [ok |-> TRUE]

----------------------------------------------------------------------------
(* The adapter driven directly through its methods *)

\* the arguments of setTokenAddress: a token of the table, another token and
\* the empty string
AdapterTokens == {"0xt1", "0xt2", ""}

\* the amounts passed to scheduleDeduction: ten, a half, one with seven digits
\* after the point, none and one that is no number
ScheduleAmounts ==
    {<<"1", "0">>, <<"0", ".", "5">>,
     <<"0", ".", "0", "0", "0", "0", "0", "0", "1">>, <<>>, <<"a", "b", "c">>}

CallConnect ==
    /\ adapter' = connect
    /\ \E a \in Accounts : last' = [op |-> "connect", ret |-> a]
    /\ UNCHANGED <<wallet, formData, showApprovalModal, isSubmitting,
                   notification, invalidated, flows, cancels, connection>>
    /\ UNCHANGED <<storeVars, now, issued, requests>>

CallDisconnect ==
    /\ adapter' = disconnect
    /\ last' = [op |-> "disconnect"]
    /\ UNCHANGED <<wallet, formData, showApprovalModal, isSubmitting,
                   notification, invalidated, flows, cancels, connection>>
    /\ UNCHANGED <<storeVars, now, issued, requests>>

CallSetTokenAddress ==
    /\ \E t \in AdapterTokens :
           /\ adapter' = setTokenAddress(t)
           /\ last' = [op |-> "setTokenAddress", arg |-> t]
    /\ UNCHANGED <<wallet, formData, showApprovalModal, isSubmitting,
                   notification, invalidated, flows, cancels, connection>>
    /\ UNCHANGED <<storeVars, now, issued, requests>>

CallScheduleDeduction ==
    /\ \E amount \in ScheduleAmounts, hash \in TxHashes :
           last' = [op |-> "scheduleDeduction", arg |-> amount,
                    ret |-> scheduleDeduction(amount, hash)]
    /\ UNCHANGED <<adapter, wallet, formData, showApprovalModal, isSubmitting,
                   notification, invalidated, flows, cancels, connection>>
    /\ UNCHANGED <<storeVars, now, issued, requests>>

CallCancelDeduction ==
    /\ \E id \in 1..MaxDeductions :
           last' = [op |-> "cancelDeduction", arg |-> id, ret |-> cancelDeduction(id)]
    /\ UNCHANGED <<adapter, wallet, formData, showApprovalModal, isSubmitting,
                   notification, invalidated, flows, cancels, connection>>
    /\ UNCHANGED <<storeVars, now, issued, requests>>

CallIsConnected ==
    /\ last' = [op |-> "isConnected", ret |-> isConnected]
    /\ UNCHANGED <<adapter, wallet, formData, showApprovalModal, isSubmitting,
                   notification, invalidated, flows, cancels, connection>>
    /\ UNCHANGED <<storeVars, now, issued, requests>>

AdapterNext ==
    \/ CallConnect
    \/ CallDisconnect
    \/ CallSetTokenAddress
    \/ CallScheduleDeduction
    \/ CallCancelDeduction
    \/ CallIsConnected

AdapterSpec == Init /\ [][AdapterNext]_vars

----------------------------------------------------------------------------
(* The balances the adapter reads *)

\* Web3Service.connect on a chain that TESTNET_TOKENS has no entry for
connectElsewhere == [connect EXCEPT !.supportedTokens = <<>>]

\* the symbol of an entry of the token table
TokenSymbol(tokenAddress) ==
    IF tokenAddress = "0xt1" THEN "USDC"
    ELSE IF tokenAddress = "0xdai" THEN "DAI" ELSE "WMATIC"

\* getNativeBalance: null without a session and when a read fails
getNativeBalance(fails) ==
    IF ~adapter.provider \/ ~adapter.signer \/ fails THEN None
    ELSE [symbol |-> IF Network \in {"matic", "maticmum"} THEN "MATIC" ELSE "ETH"]

\* getTokenBalance: null without a session and when a read fails
getTokenBalance(tokenAddress, fails) ==
    IF ~adapter.provider \/ ~adapter.signer \/ fails THEN None
    ELSE [symbol |-> TokenSymbol(tokenAddress), address |-> tokenAddress]

\* the loop of getAllTokenBalances that ends at the first balance it does not
\* get
RECURSIVE TokenBalancesUntilFailure(_, _)
TokenBalancesUntilFailure(tokens, failing) ==
    IF tokens = <<>> THEN <<>>
    ELSE LET balance == getTokenBalance(Head(tokens), Head(tokens) \in failing)
         IN  IF balance = None THEN <<>>
             ELSE <<balance>> \o TokenBalancesUntilFailure(Tail(tokens), failing)

\* the loop of getAllTokenBalances over the supported tokens
RECURSIVE TokenBalances(_, _)
TokenBalances(tokens, failing) ==
    IF tokens = <<>> THEN <<>>
    ELSE LET balance == getTokenBalance(Head(tokens), Head(tokens) \in failing)
         IN  (IF balance = None THEN <<>> ELSE <<balance>>)
             \o TokenBalances(Tail(tokens), failing)

\* getAllTokenBalances that gives up at the first token it cannot read
getAllTokenBalancesAborting(nativeFails, failing) ==
    IF ~adapter.provider \/ ~adapter.signer \/ adapter.supportedTokens = <<>>
    THEN <<>>
    ELSE LET nativeBalance == getNativeBalance(nativeFails)
         IN  (IF nativeBalance = None THEN <<>> ELSE <<nativeBalance>>)
             \o TokenBalancesUntilFailure(adapter.supportedTokens, failing)

\* getAllTokenBalances, the session staying as it is during the call;
\* nativeFails and failing say which reads from the chain fail
getAllTokenBalances(nativeFails, failing) ==
    IF ~adapter.provider \/ ~adapter.signer \/ adapter.supportedTokens = <<>>
    THEN <<>>
    ELSE LET nativeBalance == getNativeBalance(nativeFails)
         IN  (IF nativeBalance = None THEN <<>> ELSE <<nativeBalance>>)
             \o TokenBalances(adapter.supportedTokens, failing)

CallConnectElsewhere ==
    /\ adapter' = connectElsewhere
    /\ \E a \in Accounts : last' = [op |-> "connect", ret |-> a]
    /\ UNCHANGED <<wallet, formData, showApprovalModal, isSubmitting,
                   notification, invalidated, flows, cancels, connection>>
    /\ UNCHANGED <<storeVars, now, issued, requests>>

CallGetAllTokenBalances ==
    /\ \E nativeFails \in BOOLEAN, failing \in SUBSET Elems(TokenTable) :
           last' = [op |-> "getAllTokenBalances", connected |-> isConnected,
                    supportedTokens |-> adapter.supportedTokens,
                    nativeFails |-> nativeFails, failing |-> failing,
                    ret |-> getAllTokenBalances(nativeFails, failing)]
    /\ UNCHANGED <<adapter, wallet, formData, showApprovalModal, isSubmitting,
                   notification, invalidated, flows, cancels, connection>>
    /\ UNCHANGED <<storeVars, now, issued, requests>>

BalancesNext ==
    \/ CallConnect
    \/ CallConnectElsewhere
    \/ CallDisconnect
    \/ CallSetTokenAddress
    \/ CallGetAllTokenBalances

BalancesSpec == Init /\ [][BalancesNext]_vars

----------------------------------------------------------------------------
(* The supported tokens of the chain connected to *)

\* the chain ids MetaMask can be on: Mumbai, Goerli and one that
\* TESTNET_TOKENS has no entry for
ChainIds == {"0x13881", "0x5", "0x1"}

\* the addresses of the entries TESTNET_TOKENS has for Goerli, in the order
\* of the table: USDC, DAI and LINK
GoerliTable == <<"0xgusdc", "0xgdai", "0xglink">>

\* the addresses of TESTNET_TOKENS[chainId], none when chainId is not in the
\* table
TESTNET_TOKENS(chainId) ==
    IF chainId = "0x13881" THEN TokenTable
    ELSE IF chainId = "0x5" THEN GoerliTable
    ELSE <<>>

\* loadSupportedTokens, called by connect with the provider set: the list it
\* leaves in supportedTokens. When provider.getNetwork() throws, the catch
\* block logs the error and the list stays as it was.
loadSupportedTokens(chainId, fails) ==
    IF fails THEN adapter.supportedTokens
    ELSE TESTNET_TOKENS(chainId)

\* Web3Service.connect on the chain chainId with an account granted
connectOn(chainId, fails) ==
    [adapter EXCEPT !.provider = TRUE, !.signer = TRUE,
                    !.deductionContract = TRUE,
                    !.supportedTokens = loadSupportedTokens(chainId, fails)]

\* connect is called and returns the account
CallConnectOn ==
    /\ \E chainId \in ChainIds, fails \in BOOLEAN, a \in Accounts :
           /\ adapter' = connectOn(chainId, fails)
           /\ last' = [op |-> "connect", chainId |-> chainId,
                       networkFails |-> fails, ret |-> a]
    /\ UNCHANGED <<wallet, formData, showApprovalModal, isSubmitting,
                   notification, invalidated, flows, cancels, connection>>
    /\ UNCHANGED <<storeVars, now, issued, requests>>

\* connect is called and the user rejects the request for the accounts
CallConnectRejected ==
    /\ adapter' = [adapter EXCEPT !.provider = TRUE]
    /\ last' = [op |-> "connect", error |-> "User rejected the request."]
    /\ UNCHANGED <<wallet, formData, showApprovalModal, isSubmitting,
                   notification, invalidated, flows, cancels, connection>>
    /\ UNCHANGED <<storeVars, now, issued, requests>>

ChainNext ==
    \/ CallConnectOn
    \/ CallConnectRejected
    \/ CallDisconnect
    \/ CallSetTokenAddress

ChainSpec == Init /\ [][ChainNext]_vars

----------------------------------------------------------------------------
(* The wallet context, contexts/WalletContext.tsx *)

\* connectWallet with an account granted
ConnectWallet ==
    /\ ~wallet.isConnected
    /\ \E a \in Accounts :
           wallet' = [wallet EXCEPT !.isConnected = TRUE, !.address = a,
                                    !.network = Network, !.error = "null"]
    /\ adapter' = connect
    /\ UNCHANGED <<formData, showApprovalModal, isSubmitting, notification,
                   invalidated, flows>>
    /\ UNCHANGED <<storeVars, now, last, issued, requests>>
    /\ UNCHANGED <<cancels, connection>>

\* a disconnectWallet that keeps the selected token
DisconnectWalletKeepingToken ==
    /\ wallet.isConnected
    /\ adapter' = disconnect
    /\ wallet' = [wallet EXCEPT !.isConnected = FALSE, !.address = NullAddress,
                                !.network = "null",
                                !.balanceSymbol = NullToken]
    /\ UNCHANGED <<formData, showApprovalModal, isSubmitting, notification,
                   invalidated, flows>>
    /\ UNCHANGED <<storeVars, now, last, issued, requests>>
    /\ UNCHANGED <<cancels, connection>>

\* disconnectWallet
DisconnectWallet ==
    /\ wallet.isConnected
    /\ adapter' = disconnect
    /\ wallet' = [wallet EXCEPT !.isConnected = FALSE, !.address = NullAddress,
                                !.network = "null",
                                !.balanceSymbol = NullToken,
                                !.selectedToken = NullToken]
    /\ UNCHANGED <<formData, showApprovalModal, isSubmitting, notification,
                   invalidated, flows>>
    /\ UNCHANGED <<storeVars, now, last, issued, requests>>
    /\ UNCHANGED <<cancels, connection>>

\* selectToken; the token balances are not loaded, so balance stays
SelectToken ==
    /\ \E t \in TokenAddresses :
           /\ wallet.selectedToken # t \/ adapter.tokenAddress # t
                  \/ ~adapter.erc20Contract
           /\ wallet' = [wallet EXCEPT !.selectedToken = t]
           /\ adapter' = setTokenAddress(t)
    /\ UNCHANGED <<formData, showApprovalModal, isSubmitting, notification,
                   invalidated, flows>>
    /\ UNCHANGED <<storeVars, now, last, issued, requests>>
    /\ UNCHANGED <<cancels, connection>>

\* connectWallet up to the first await of Web3Service.connect: the provider is
\* made and the accounts are requested
StartConnect ==
    /\ connection.pc = "idle"
    /\ ~wallet.isConnected
    /\ wallet' = [wallet EXCEPT !.isConnecting = TRUE, !.error = "null"]
    /\ adapter' = [adapter EXCEPT !.provider = TRUE]
    /\ connection' = [connection EXCEPT !.pc = "requestingAccounts"]
    /\ UNCHANGED <<formData, showApprovalModal, isSubmitting, notification,
                   invalidated, flows, cancels>>
    /\ UNCHANGED <<storeVars, now, last, issued, requests>>

\* the catch and finally blocks of connectWallet, and its else branch
ConnectFailed(message) ==
    /\ wallet' = [wallet EXCEPT !.error = message, !.isConnecting = FALSE]
    /\ connection' = NotConnecting

\* eth_requestAccounts is answered: rejected, with no account, or with an
\* account; with an account the signer and the deduction contract are made,
\* unless the provider was cleared meanwhile, and the network is asked for
AccountsAnswered ==
    /\ connection.pc = "requestingAccounts"
    /\ \/ /\ ConnectFailed("User rejected the request.")
          /\ UNCHANGED adapter
       \/ /\ ConnectFailed("Failed to connect to wallet")
          /\ UNCHANGED adapter
       \/ \E a \in Accounts :
              IF ~adapter.provider
              THEN /\ ConnectFailed("Cannot read properties of null")
                   /\ UNCHANGED adapter
              ELSE /\ adapter' = [adapter EXCEPT !.signer = TRUE,
                                                 !.deductionContract = TRUE]
                   /\ connection' = [connection EXCEPT !.pc = "loadingTokens",
                                                        !.account = a]
                   /\ UNCHANGED wallet
    /\ UNCHANGED <<formData, showApprovalModal, isSubmitting, notification,
                   invalidated, flows, cancels>>
    /\ UNCHANGED <<storeVars, now, last, issued, requests>>

\* loadSupportedTokens has the network: the token list is filled, connect
\* returns the account, connectWallet sets address and isConnected and asks
\* the adapter for the network
NetworkAnswered ==
    /\ connection.pc = "loadingTokens"
    /\ adapter' = [adapter EXCEPT !.supportedTokens = TokenTable]
    /\ wallet' = [wallet EXCEPT !.address = connection.account,
                                !.isConnected = TRUE]
    /\ connection' = [connection EXCEPT
                          !.pc = "gettingNetwork",
                          !.network = IF adapter.provider THEN Network ELSE "null"]
    /\ UNCHANGED <<formData, showApprovalModal, isSubmitting, notification,
                   invalidated, flows, cancels>>
    /\ UNCHANGED <<storeVars, now, last, issued, requests>>

\* Web3Service.getNetwork answers: connectWallet sets the network, finds
\* refreshTokenBalances returning at once (its closure has isConnected false)
\* and ends
NetworkSet ==
    /\ connection.pc = "gettingNetwork"
    /\ wallet' = [wallet EXCEPT !.network = connection.network,
                                !.isConnecting = FALSE]
    /\ connection' = NotConnecting
    /\ UNCHANGED <<adapter, formData, showApprovalModal, isSubmitting,
                   notification, invalidated, flows, cancels>>
    /\ UNCHANGED <<storeVars, now, last, issued, requests>>

\* handleAccountsChanged with no account: disconnectWallet
AccountsChangedToNone ==
    /\ adapter' = disconnect
    /\ wallet' = [wallet EXCEPT !.isConnected = FALSE, !.address = NullAddress,
                                !.network = "null",
                                !.balanceSymbol = NullToken,
                                !.selectedToken = NullToken]
    /\ UNCHANGED <<formData, showApprovalModal, isSubmitting, notification,
                   invalidated, flows, cancels, connection>>
    /\ UNCHANGED <<storeVars, now, last, issued, requests>>

\* the symbols getBalance can answer with: null without a session, else the
\* symbol of the selected token or of the native coin, or null when a read
\* from the chain fails
getBalance ==
    IF ~adapter.provider \/ ~adapter.signer THEN {NullToken}
    ELSE IF ~NoString(adapter.tokenAddress)
         THEN {TokenSymbol(adapter.tokenAddress), NullToken}
    ELSE {IF Network \in {"matic", "maticmum"} THEN "MATIC" ELSE "ETH", NullToken}

\* the periodic refreshBalance, which runs while isConnected, asks for the
\* balance
RefreshBalance ==
    /\ wallet.isConnected
    /\ wallet.refreshing = "idle"
    /\ \E balance \in getBalance :
           wallet' = [wallet EXCEPT !.refreshing = balance]
    /\ UNCHANGED <<adapter, formData, showApprovalModal, isSubmitting,
                   notification, invalidated, flows, cancels, connection>>
    /\ UNCHANGED <<storeVars, now, last, issued, requests>>

\* getBalance answers and refreshBalance sets the balance
BalanceAnswered ==
    /\ wallet.refreshing # "idle"
    /\ wallet' = [wallet EXCEPT !.balanceSymbol = wallet.refreshing,
                                !.refreshing = "idle"]
    /\ UNCHANGED <<adapter, formData, showApprovalModal, isSubmitting,
                   notification, invalidated, flows, cancels, connection>>
    /\ UNCHANGED <<storeVars, now, last, issued, requests>>

\* the wallet context and what happens to it
WalletNext ==
    \/ StartConnect
    \/ AccountsAnswered
    \/ NetworkAnswered
    \/ NetworkSet
    \/ DisconnectWallet
    \/ AccountsChangedToNone
    \/ SelectToken
    \/ RefreshBalance
    \/ BalanceAnswered

WalletSpec == Init /\ [][WalletNext]_vars

----------------------------------------------------------------------------
(* The deduction context, contexts/DeductionContext.tsx *)

\* showNotification
Notification(type, title, message) ==
    [type |-> type, title |-> title, message |-> message]

\* updateFormData
UpdateFormData ==
    /\ \E data \in {[amount |-> a] : a \in Amounts}
                   \cup {[interval |-> "weekly"]} :
           /\ formData' = Spread(formData, data)
           /\ formData' # formData
    /\ UNCHANGED <<adapter, wallet, showApprovalModal, isSubmitting, notification,
                   invalidated, flows>>
    /\ UNCHANGED <<storeVars, now, last, issued, requests>>
    /\ UNCHANGED <<cancels, connection>>

\* the amounts a caller of updateFormData sets: none, ten, zero, a negative
\* one, a fraction and one that is no number
DraftAmounts ==
    {<<>>, <<"1", "0">>, <<"0">>, <<"-", "5">>, <<"0", ".", "5">>, <<"a", "b", "c">>}

\* updateFormData({ amount })
TypeAmount ==
    /\ \E a \in DraftAmounts :
           /\ formData' = Spread(formData, [amount |-> a])
           /\ formData' # formData
    /\ UNCHANGED <<adapter, wallet, showApprovalModal, isSubmitting, notification,
                   invalidated, flows, cancels, connection>>
    /\ UNCHANGED <<storeVars, now, last, issued, requests>>

\* the digits a string starts with
RECURSIVE LeadingDigits(_)
LeadingDigits(s) ==
    IF s = <<>> \/ ~IsDigit(Head(s)) THEN <<>>
    ELSE <<Head(s)>> \o LeadingDigits(Tail(s))

\* parseFloat of a string without white space and exponent: the sign and the
\* digits of its longest prefix that is a decimal number, NaN when that prefix
\* has no digit
parseFloat(s) ==
    LET signed == s # <<>> /\ Head(s) \in {"-", "+"}
        rest == IF signed THEN Tail(s) ELSE s
        whole == LeadingDigits(rest)
        after == SubSeq(rest, Len(whole) + 1, Len(rest))
        fraction == IF after # <<>> /\ Head(after) = "."
                    THEN LeadingDigits(Tail(after)) ELSE <<>>
    IN  [nan |-> whole \o fraction = <<>>,
         negative |-> signed /\ Head(s) = "-",
         digits |-> whole \o fraction]

\* x <= 0 for a value of parseFloat; a comparison with NaN is false
AtMostZero(x) ==
    /\ ~x.nan
    /\ x.negative \/ \A i \in 1..Len(x.digits) : x.digits[i] = "0"

\* submitDeduction
SubmitDeduction ==
    /\ IF NoAddress(wallet.address)
       THEN /\ notification' = Notification("error", "Wallet Not Connected",
                                   "Please connect your wallet to continue.")
            /\ UNCHANGED showApprovalModal
       ELSE IF formData.amount = <<>> \/ AtMostZero(parseFloat(formData.amount))
       THEN /\ notification' = Notification("error", "Invalid Amount",
                                   "Please enter a valid amount.")
            /\ UNCHANGED showApprovalModal
       ELSE IF formData.interval = "null"
       THEN /\ notification' = Notification("error", "Interval Not Selected",
                                   "Please select a deduction interval.")
            /\ UNCHANGED showApprovalModal
       ELSE /\ showApprovalModal' = TRUE
            /\ UNCHANGED notification
    /\ UNCHANGED <<adapter, wallet, formData, isSubmitting, invalidated, flows,
                   cancels, connection>>
    /\ UNCHANGED <<storeVars, now, last, issued, requests>>

\* closeApprovalModal
CloseApprovalModal ==
    /\ showApprovalModal
    /\ showApprovalModal' = FALSE
    /\ UNCHANGED <<adapter, wallet, formData, isSubmitting, notification,
                   invalidated, flows, cancels, connection>>
    /\ UNCHANGED <<storeVars, now, last, issued, requests>>

\* the deduction approveDeduction posts
DeductionRecord(flow) ==
    [userId |-> 1,
     walletAddress |-> flow.address,
     amount |-> flow.formData.amount,
     tokenSymbol |-> flow.selectedTokenSymbol,
     tokenAddress |-> IF NoString(flow.selectedToken) THEN "" ELSE flow.selectedToken,
     interval |-> flow.formData.interval,
     duration |-> flow.formData.duration,
     startDate |-> flow.formData.startDate,
     status |-> "approved"]

\* a transaction made of the draft and the wallet as they are when the
\* deduction POST is answered
TransactionRecordOfCurrentDraft(flow) ==
    [deductionId |-> flow.response.json.id,
     walletAddress |-> wallet.address,
     amount |-> formData.amount,
     tokenSymbol |-> IF NoString(wallet.balanceSymbol) THEN "ETH"
                     ELSE wallet.balanceSymbol,
     tokenAddress |-> IF NoString(wallet.selectedToken) THEN ""
                      ELSE wallet.selectedToken,
     status |-> "success",
     date |-> now,
     txHash |-> flow.scheduled.txHash]

\* a transaction that always names the first deduction of the store
TransactionRecordOfFirstDeduction(flow) ==
    [deductionId |-> 1,
     walletAddress |-> flow.address,
     amount |-> flow.formData.amount,
     tokenSymbol |-> flow.selectedTokenSymbol,
     tokenAddress |-> IF NoString(flow.selectedToken) THEN "" ELSE flow.selectedToken,
     status |-> "success",
     date |-> now,
     txHash |-> flow.scheduled.txHash]

\* the transaction approveDeduction posts
TransactionRecord(flow) ==
    [deductionId |-> flow.response.json.id,
     walletAddress |-> flow.address,
     amount |-> flow.formData.amount,
     tokenSymbol |-> flow.selectedTokenSymbol,
     tokenAddress |-> IF NoString(flow.selectedToken) THEN "" ELSE flow.selectedToken,
     status |-> "success",
     date |-> now,
     txHash |-> flow.scheduled.txHash]

\* the continuation of a rejected await is about to run
MicrotaskPending == \E f \in 1..MaxFlows : flows[f].pc = "scheduling"

\* approveDeduction up to its first await: the flow takes the values of the
\* render it was created in and calls scheduleDeduction
ApproveDeduction(f) ==
    /\ flows[f].pc = "idle"
    /\ \A g \in 1..(f - 1) : flows[g].pc # "idle"
    /\ ~NoAddress(wallet.address)
    /\ formData.interval # "null"
    /\ showApprovalModal' = FALSE
    /\ isSubmitting' = TRUE
    /\ notification' = Notification("pending", "Transaction Pending",
                           "Your transaction is being processed.")
    /\ \E hash \in TxHashes :
           flows' = [flows EXCEPT ![f] =
               [IdleFlow EXCEPT
                    !.pc = "scheduling",
                    !.address = wallet.address,
                    !.formData = formData,
                    !.selectedToken = wallet.selectedToken,
                    !.selectedTokenSymbol =
                        IF NoString(wallet.balanceSymbol) THEN "ETH"
                        ELSE wallet.balanceSymbol,
                    !.scheduled = scheduleDeduction(formData.amount, hash)]]
    /\ UNCHANGED <<adapter, wallet, formData, invalidated>>
    /\ UNCHANGED <<storeVars, now, last, issued, requests>>
    /\ UNCHANGED <<cancels, connection>>

\* a catch block that also resets the form
CatchResettingForm(f, message) ==
    /\ notification' = Notification("error", "Transaction Failed", message)
    /\ isSubmitting' = FALSE
    /\ formData' = defaultFormData
    /\ flows' = [flows EXCEPT ![f].pc = "failed"]
    /\ UNCHANGED <<adapter, wallet, showApprovalModal, invalidated>>

\* the catch and finally blocks of approveDeduction
Catch(f, message) ==
    /\ notification' = Notification("error", "Transaction Failed", message)
    /\ isSubmitting' = FALSE
    /\ flows' = [flows EXCEPT ![f].pc = "failed"]
    /\ UNCHANGED <<adapter, wallet, formData, showApprovalModal, invalidated>>

\* approveDeduction with steps 2 and 3 exchanged: the transaction is posted
\* right after scheduleDeduction, before any deduction was saved
AfterSchedulePostingTransactionFirst(f) ==
    /\ flows[f].pc = "scheduling"
    /\ IF "error" \in DOMAIN flows[f].scheduled
       THEN Catch(f, flows[f].scheduled.error)
       ELSE /\ flows' = [flows EXCEPT
                   ![f].pc = "postingTransaction",
                   ![f].transaction =
                       [deductionId |-> 0,
                        walletAddress |-> flows[f].address,
                        amount |-> flows[f].formData.amount,
                        status |-> "success",
                        txHash |-> flows[f].scheduled.txHash]]
            /\ UNCHANGED <<adapter, wallet, formData, showApprovalModal,
                           isSubmitting, notification, invalidated>>
    /\ UNCHANGED <<storeVars, now, last, issued, requests>>
    /\ UNCHANGED <<cancels, connection>>

\* after await scheduleDeduction: the deduction is posted
AfterSchedule(f) ==
    /\ flows[f].pc = "scheduling"
    /\ IF "error" \in DOMAIN flows[f].scheduled
       THEN Catch(f, flows[f].scheduled.error)
       ELSE /\ flows' = [flows EXCEPT ![f].pc = "postingDeduction",
                                      ![f].deduction = DeductionRecord(flows[f])]
            /\ UNCHANGED <<adapter, wallet, formData, showApprovalModal,
                           isSubmitting, notification, invalidated>>
    /\ UNCHANGED <<storeVars, now, last, issued, requests>>
    /\ UNCHANGED <<cancels, connection>>

\* the server handles the POST /api/deductions of the flow
ServeDeductionPost(f) ==
    /\ flows[f].pc = "postingDeduction"
    /\ PostDeduction(flows[f].deduction)
    /\ flows' = [flows EXCEPT ![f].pc = "deductionAnswered",
                              ![f].response = [status |-> last'.status,
                                               json |-> last'.json]]
    /\ UNCHANGED <<adapter, wallet, formData, showApprovalModal, isSubmitting,
                   notification, invalidated>>
    /\ UNCHANGED <<cancels, connection, requests>>

\* a failure of the transaction POST that takes the deduction of the flow
\* out of the store again
FetchFailsRollingBack(f) ==
    /\ flows[f].pc \in {"postingDeduction", "postingTransaction"}
    /\ Catch(f, "Failed to fetch")
    /\ scheduledDeductions' =
           IF flows[f].pc = "postingTransaction"
           THEN MapDelete(scheduledDeductions, flows[f].response.json.id)
           ELSE scheduledDeductions
    /\ UNCHANGED <<users, transactions, userId, deductionId, transactionId,
                   now, last, issued, requests>>
    /\ UNCHANGED <<cancels, connection>>

\* fetch rejects: the request of the flow does not reach the server
FetchFails(f) ==
    /\ flows[f].pc \in {"postingDeduction", "postingTransaction"}
    /\ Catch(f, "Failed to fetch")
    /\ UNCHANGED <<storeVars, now, last, issued, requests>>
    /\ UNCHANGED <<cancels, connection>>

\* a response apiRequest resolves with; it throws on any other
Ok(response) == response.status \in 200..299

\* a continuation that builds the transaction from the draft and the wallet
\* of the moment it runs
AfterDeductionPostReadingCurrentDraft(f) ==
    /\ flows[f].pc = "deductionAnswered"
    /\ IF ~Ok(flows[f].response)
       THEN Catch(f, flows[f].response.json.message)
       ELSE /\ flows' = [flows EXCEPT ![f].pc = "postingTransaction",
                                      ![f].transaction =
                                          TransactionRecordOfCurrentDraft(flows[f])]
            /\ UNCHANGED <<adapter, wallet, formData, showApprovalModal,
                           isSubmitting, notification, invalidated>>
    /\ UNCHANGED <<storeVars, now, last, issued, requests>>
    /\ UNCHANGED <<cancels, connection>>

\* after await apiRequest and response.json(): the transaction is posted
AfterDeductionPost(f) ==
    /\ flows[f].pc = "deductionAnswered"
    /\ IF ~Ok(flows[f].response)
       THEN Catch(f, flows[f].response.json.message)
       ELSE /\ flows' = [flows EXCEPT ![f].pc = "postingTransaction",
                                      ![f].transaction = TransactionRecord(flows[f])]
            /\ UNCHANGED <<adapter, wallet, formData, showApprovalModal,
                           isSubmitting, notification, invalidated>>
    /\ UNCHANGED <<storeVars, now, last, issued, requests>>
    /\ UNCHANGED <<cancels, connection>>

\* the server handles the POST /api/transactions of the flow
ServeTransactionPost(f) ==
    /\ flows[f].pc = "postingTransaction"
    /\ PostTransaction(flows[f].transaction)
    /\ flows' = [flows EXCEPT ![f].pc = "transactionAnswered",
                              ![f].transactionResponse = [status |-> last'.status,
                                                          json |-> last'.json]]
    /\ UNCHANGED <<adapter, wallet, formData, showApprovalModal, isSubmitting,
                   notification, invalidated>>
    /\ UNCHANGED <<cancels, connection, requests>>

\* the query keys of a wallet
QueryKeys(address) == {<<"/api/deductions/", address>>, <<"/api/transactions/", address>>}

\* an end of approveDeduction that leaves the transaction list cached
AfterTransactionPostKeepingTransactionList(f) ==
    /\ flows[f].pc = "transactionAnswered"
    /\ IF ~Ok(flows[f].transactionResponse)
       THEN Catch(f, flows[f].transactionResponse.json.message)
       ELSE /\ invalidated' = invalidated
                                  \cup {<<"/api/deductions/", flows[f].address>>}
            /\ notification' = Notification("success", "Transaction Successful",
                                   "Your deduction has been set up successfully.")
            /\ formData' = defaultFormData
            /\ isSubmitting' = FALSE
            /\ flows' = [flows EXCEPT ![f].pc = "done"]
            /\ UNCHANGED <<adapter, wallet, showApprovalModal>>
    /\ UNCHANGED <<storeVars, now, last, issued, requests>>
    /\ UNCHANGED <<cancels, connection>>

\* after the second await apiRequest: invalidation, success, reset
AfterTransactionPost(f) ==
    /\ flows[f].pc = "transactionAnswered"
    /\ IF ~Ok(flows[f].transactionResponse)
       THEN Catch(f, flows[f].transactionResponse.json.message)
       ELSE /\ invalidated' = invalidated \cup QueryKeys(flows[f].address)
            /\ notification' = Notification("success", "Transaction Successful",
                                   "Your deduction has been set up successfully.")
            /\ formData' = defaultFormData
            /\ isSubmitting' = FALSE
            /\ flows' = [flows EXCEPT ![f].pc = "done"]
            /\ UNCHANGED <<adapter, wallet, showApprovalModal>>
    /\ UNCHANGED <<storeVars, now, last, issued, requests>>
    /\ UNCHANGED <<cancels, connection>>

\* the events of the page: a pending continuation runs before any of them
PageEvent ==
    /\ ~MicrotaskPending
    /\ \/ ConnectWallet
       \/ DisconnectWallet
       \/ SelectToken
       \/ UpdateFormData
       \/ \E f \in 1..MaxFlows : ApproveDeduction(f)
       \/ \E f \in 1..MaxFlows : AfterDeductionPost(f)
       \/ \E f \in 1..MaxFlows : AfterTransactionPost(f)
       \/ \E f \in 1..MaxFlows : FetchFails(f)

FlowNext ==
    \/ PageEvent
    \/ \E f \in 1..MaxFlows : AfterSchedule(f)
    \/ \E f \in 1..MaxFlows : ServeDeductionPost(f)
    \/ \E f \in 1..MaxFlows : ServeTransactionPost(f)

FlowSpec == Init /\ [][FlowNext]_vars

\* the events of the page while the draft, the selected token and the
\* balance change under approval flows; a flow is followed until its second
\* POST is answered, after which it writes no record
\* the approval flows followed while the draft and the wallet change
MaxCaptures == 1

\* the token addresses the token selector of the page lists
ListedTokens == {"0xt1", "0xdai"}

\* selectToken with any token of the selector
SelectListedToken ==
    /\ \E t \in ListedTokens :
           /\ wallet.selectedToken # t
           /\ wallet' = [wallet EXCEPT !.selectedToken = t]
           /\ adapter' = setTokenAddress(t)
    /\ UNCHANGED <<formData, showApprovalModal, isSubmitting, notification,
                   invalidated, flows>>
    /\ UNCHANGED <<storeVars, now, last, issued, requests>>
    /\ UNCHANGED <<cancels, connection>>

CapturePageEvent ==
    /\ ~MicrotaskPending
    /\ \/ ConnectWallet
       \/ SelectListedToken
       \/ UpdateFormData
       \/ RefreshBalance
       \/ BalanceAnswered
       \/ \E f \in 1..MaxCaptures : ApproveDeduction(f)
       \/ \E f \in 1..MaxCaptures : AfterDeductionPost(f)

CaptureNext ==
    \/ CapturePageEvent
    \/ \E f \in 1..MaxCaptures : AfterSchedule(f)
    \/ \E f \in 1..MaxCaptures : ServeDeductionPost(f)
    \/ \E f \in 1..MaxCaptures : ServeTransactionPost(f)

CaptureSpec == Init /\ [][CaptureNext]_vars

----------------------------------------------------------------------------
(* cancelDeduction of the deduction context *)

\* the continuation of a settled await of cancelDeduction is about to run
CancelMicrotaskPending == \E c \in 1..MaxCancels : cancels[c].pc = "cancelling"

\* cancelDeduction(id) up to its first await: the adapter is called
CancelDeduction(c, id) ==
    /\ cancels[c].pc = "idle"
    /\ \A d \in 1..(c - 1) : cancels[d].pc # "idle"
    /\ ~NoAddress(wallet.address)
    /\ notification' = Notification("pending", "Cancellation Pending",
                           "Processing your cancellation request...")
    /\ cancels' = [cancels EXCEPT ![c] =
           [IdleCancel EXCEPT !.pc = "cancelling", !.id = id,
                              !.address = wallet.address,
                              !.cancelled = cancelDeduction(id)]]
    /\ UNCHANGED <<adapter, wallet, formData, showApprovalModal, isSubmitting,
                   invalidated, flows, connection>>
    /\ UNCHANGED <<storeVars, now, last, issued, requests>>

\* the catch block of cancelDeduction
CancelCatch(c, message) ==
    /\ notification' = Notification("error", "Cancellation Failed", message)
    /\ cancels' = [cancels EXCEPT ![c].pc = "failed"]
    /\ UNCHANGED invalidated

\* cancelDeduction that sends the DELETE whatever the adapter answered
AfterCancelIgnoringAdapter(c) ==
    /\ cancels[c].pc = "cancelling"
    /\ cancels' = [cancels EXCEPT ![c].pc = "deleting"]
    /\ UNCHANGED <<notification, invalidated>>
    /\ UNCHANGED <<adapter, wallet, formData, showApprovalModal, isSubmitting,
                   flows, connection>>
    /\ UNCHANGED <<storeVars, now, last, issued, requests>>

\* after await web3Service.cancelDeduction: the DELETE is sent
AfterCancel(c) ==
    /\ cancels[c].pc = "cancelling"
    /\ IF "error" \in DOMAIN cancels[c].cancelled
       THEN CancelCatch(c, cancels[c].cancelled.error)
       ELSE /\ cancels' = [cancels EXCEPT ![c].pc = "deleting"]
            /\ UNCHANGED <<notification, invalidated>>
    /\ UNCHANGED <<adapter, wallet, formData, showApprovalModal, isSubmitting,
                   flows, connection>>
    /\ UNCHANGED <<storeVars, now, last, issued, requests>>

\* the server handles the DELETE /api/deductions/:id of the invocation
ServeDelete(c) ==
    /\ cancels[c].pc = "deleting"
    /\ DeleteDeduction(<<DigitChar(cancels[c].id)>>)
    /\ cancels' = [cancels EXCEPT ![c].pc = "deleteAnswered",
                                  ![c].response = [status |-> last'.status,
                                                   json |-> last'.json]]
    /\ UNCHANGED <<adapter, wallet, formData, showApprovalModal, isSubmitting,
                   notification, invalidated, flows, connection, requests>>

\* fetch rejects: the DELETE of the invocation does not reach the server
DeleteFetchFails(c) ==
    /\ cancels[c].pc = "deleting"
    /\ CancelCatch(c, "Failed to fetch")
    /\ UNCHANGED <<adapter, wallet, formData, showApprovalModal, isSubmitting,
                   flows, connection>>
    /\ UNCHANGED <<storeVars, now, last, issued, requests>>

\* after await apiRequest: the deduction list is invalidated
AfterDelete(c) ==
    /\ cancels[c].pc = "deleteAnswered"
    /\ IF ~Ok(cancels[c].response)
       THEN CancelCatch(c, cancels[c].response.json.message)
       ELSE /\ invalidated' = invalidated
                                 \cup {<<"/api/deductions/", cancels[c].address>>}
            /\ notification' = Notification("success", "Cancellation Successful",
                                   "Deduction has been cancelled successfully.")
            /\ cancels' = [cancels EXCEPT ![c].pc = "done"]
    /\ UNCHANGED <<adapter, wallet, formData, showApprovalModal, isSubmitting,
                   flows, connection>>
    /\ UNCHANGED <<storeVars, now, last, issued, requests>>

\* a deduction of the account is created through the API
SeedDeduction ==
    /\ deductionId <= MaxSeeds
    /\ PostDeduction(DeductionBase(<<"0", "x", "A">>))
    /\ UNCHANGED <<clientVars, requests>>

\* the events of the page while deductions are cancelled
CancelPageEvent ==
    /\ ~CancelMicrotaskPending
    /\ \/ StartConnect
       \/ AccountsAnswered
       \/ NetworkAnswered
       \/ NetworkSet
       \/ AccountsChangedToNone
       \/ \E c \in 1..MaxCancels, id \in 1..(MaxSeeds + 1) :
              CancelDeduction(c, id)
       \/ \E c \in 1..MaxCancels : DeleteFetchFails(c)
       \/ \E c \in 1..MaxCancels : AfterDelete(c)

CancelNext ==
    \/ CancelPageEvent
    \/ \E c \in 1..MaxCancels : AfterCancel(c)
    \/ \E c \in 1..MaxCancels : ServeDelete(c)
    \/ SeedDeduction

CancelSpec == Init /\ [][CancelNext]_vars

\* the draft is edited and submitted while the wallet connects and disconnects
SubmitNext ==
    \/ ConnectWallet
    \/ DisconnectWallet
    \/ TypeAmount
    \/ UpdateFormData
    \/ SubmitDeduction
    \/ CloseApprovalModal
    \/ SeedDeduction

SubmitSpec == Init /\ [][SubmitNext]_vars

----------------------------------------------------------------------------
(* Case-insensitive equality of two strings, stated letter by letter *)

SameLetter(c, d) ==
    c = d \/ {c, d} \in {{"a", "A"}, {"b", "B"}, {"x", "X"}}

EqualIgnoringCase(s, t) ==
    /\ Len(s) = Len(t)
    /\ \A i \in 1..Len(s) : SameLetter(s[i], t[i])

\* the positions of the entries of map m whose wallet address is a, case ignored
Matching(m, a) ==
    {i \in 1..Len(m) : EqualIgnoringCase(m[i].value.walletAddress, a)}

----------------------------------------------------------------------------
(* Properties of the store *)

\* C1: getScheduledDeductions(A) returns each stored deduction whose
\* walletAddress equals A letter for letter, case ignored, exactly once, and
\* nothing else, whatever the casing at creation, after an update or in the query.
C1_ExactlyTheWalletsDeductions ==
    last.op = "getScheduledDeductions" =>
        LET match == Matching(scheduledDeductions, last.arg)
        IN  /\ Elems(last.ret) = {scheduledDeductions[i].value : i \in match}
            /\ Len(last.ret) = Cardinality(match)

\* a query in one casing answered with a deduction stored in another casing,
\* while a deduction of another wallet is in the store
C1_Witness ==
    /\ last.op = "getScheduledDeductions"
    /\ Len(scheduledDeductions) = 2
    /\ Len(last.ret) = 1
    /\ last.ret[1].walletAddress # last.arg

\* C2: the ids createScheduledDeduction assigns start at 1 and each is strictly
\* greater than every id assigned before it, also when deductions were deleted
\* in between.
C2_IdsStrictlyIncreasing ==
    /\ (issued # <<>> => issued[1] = 1)
    /\ \A i, j \in 1..Len(issued) : i < j => issued[i] < issued[j]

\* a second id assigned after the deduction holding the first was deleted
C2_Witness ==
    /\ last.op = "createScheduledDeduction"
    /\ Len(issued) = 2
    /\ MapKeys(scheduledDeductions) = {issued[2]}

\* C4: deleteScheduledDeduction(id) of an id not in the store returns false and
\* changes no collection and no counter, and getScheduledDeduction(id) is
\* undefined afterwards; of an id in the store it returns true and removes that
\* entry alone.
C4_DeleteRemovesOnlyThatId ==
    [][last'.op = "deleteScheduledDeduction" =>
         IF ~MapHas(scheduledDeductions, last'.arg)
         THEN /\ last'.ret = FALSE
              /\ UNCHANGED storeVars
              /\ \A id \in 1..(MaxDeductions + 1) :
                     id = last'.arg => getScheduledDeduction(id)' = Undefined
         ELSE /\ last'.ret = TRUE
              /\ MapKeys(scheduledDeductions') =
                     MapKeys(scheduledDeductions) \ {last'.arg}
              /\ Len(scheduledDeductions') = Len(scheduledDeductions) - 1
              /\ \A k \in MapKeys(scheduledDeductions') :
                     MapGet(scheduledDeductions', k) = MapGet(scheduledDeductions, k)
              /\ UNCHANGED <<users, transactions, userId, deductionId, transactionId>>
      ]_vars

\* a delete of an unknown id answered false while deductions and transactions
\* are stored
C4_Witness ==
    /\ last.op = "deleteScheduledDeduction"
    /\ last.ret = FALSE
    /\ scheduledDeductions # <<>>
    /\ transactions # <<>>

\* C5: updateScheduledDeduction(id, {status: "cancelled"}) of a stored deduction
\* sets its status to cancelled, keeps every other field of it, returns the
\* stored record and changes no other record.
C5_CancelChangesOnlyStatus ==
    [][(/\ last'.op = "updateScheduledDeduction"
        /\ last'.updates = [status |-> "cancelled"]
        /\ MapHas(scheduledDeductions, last'.arg)) =>
         LET old == MapGet(scheduledDeductions, last'.arg)
             new == MapGet(scheduledDeductions', last'.arg)
         IN  /\ MapKeys(scheduledDeductions') = MapKeys(scheduledDeductions)
             /\ Len(scheduledDeductions') = Len(scheduledDeductions)
             /\ new.status = "cancelled"
             /\ DOMAIN new = DOMAIN old
             /\ \A f \in {"id", "userId", "walletAddress", "amount", "tokenSymbol",
                          "tokenAddress", "interval", "duration", "startDate",
                          "createdAt"} : new[f] = old[f]
             /\ last'.ret = new
             /\ \A k \in MapKeys(scheduledDeductions) \ {last'.arg} :
                    MapGet(scheduledDeductions', k) = MapGet(scheduledDeductions, k)
             /\ UNCHANGED <<users, transactions, userId, deductionId, transactionId>>
      ]_vars

\* a deduction cancelled some time after its creation, beside another deduction
C5_Witness ==
    /\ last.op = "updateScheduledDeduction"
    /\ last.updates = [status |-> "cancelled"]
    /\ last.ret # Undefined
    /\ last.ret.createdAt < now
    /\ Len(scheduledDeductions) = 2

\* what getTransactions(a) must return: the transactions of wallet a, case
\* ignored, each once, by date descending
TransactionsListed(ret, a) ==
    LET match == Matching(transactions, a)
    IN  /\ Elems(ret) = {transactions[i].value : i \in match}
        /\ Len(ret) = Cardinality(match)
        /\ \A i, j \in 1..Len(ret) : i < j => ret[i].date >= ret[j].date

\* C3 as stated: getTransactions(A) returns exactly A's transactions by date
\* descending, and a transaction just created whose date is not earlier than
\* that of any other transaction of its wallet is the first element.
C3_NewestFirstAsStated ==
    [][last'.op = "getTransactions" =>
         /\ TransactionsListed(last'.ret, last'.arg)
         /\ (/\ last.op = "createTransaction"
             /\ EqualIgnoringCase(last.ret.walletAddress, last'.arg)
             /\ \A i \in Matching(transactions, last'.arg) :
                    transactions[i].value.date <= last.ret.date)
            => last'.ret[1] = last.ret
      ]_vars

\* C3 amended: getTransactions(A) returns exactly A's transactions by date
\* descending, and a transaction just created whose date is later than that of
\* every other transaction of its wallet is the first element.
C3_NewestFirstWhenStrictlyLatest ==
    [][last'.op = "getTransactions" =>
         /\ TransactionsListed(last'.ret, last'.arg)
         /\ (/\ last.op = "createTransaction"
             /\ EqualIgnoringCase(last.ret.walletAddress, last'.arg)
             /\ \A i \in Matching(transactions, last'.arg) :
                    transactions[i].value # last.ret =>
                        transactions[i].value.date < last.ret.date)
            => last'.ret[1] = last.ret
      ]_vars

\* the transaction created second listed before the one created first, whose
\* address differs from it in case only
C3_Witness ==
    /\ last.op = "getTransactions"
    /\ Len(last.ret) = 2
    /\ last.ret[1].id = 2
    /\ last.ret[1].date > last.ret[2].date
    /\ last.ret[1].walletAddress # last.ret[2].walletAddress

----------------------------------------------------------------------------
(* Properties of the REST API *)

\* a body that passes a schema: every required property is there and the
\* wallet address is a string
PassesSchema(body, required) ==
    /\ required \subseteq DOMAIN body
    /\ IsString(body.walletAddress)

\* some stored deduction has a walletAddress that is no string
NonStringAddressStored ==
    \E i \in 1..Len(scheduledDeductions) :
        scheduledDeductions[i].value.walletAddress = NotAString

\* a POST /api/deductions with a valid body that has no status answers 201
\* with the stored record, which is pending and has an id no deduction had
PostAnswersPendingRecord ==
    (/\ last'.op = "POST /deductions"
     /\ PassesSchema(last'.body, DeductionSchemaRequired)
     /\ "status" \notin DOMAIN last'.body) =>
        /\ last'.status = 201
        /\ "status" \in DOMAIN last'.json
        /\ last'.json.status = "pending"
        /\ last'.json.id \notin MapKeys(scheduledDeductions) \cup Elems(issued)
        /\ MapHas(scheduledDeductions', last'.json.id)
        /\ MapGet(scheduledDeductions', last'.json.id) = last'.json

\* the GET /api/deductions/<address> that follows such a POST, with the address
\* of the POST in any casing
GetFollowsPost ==
    /\ last.op = "POST /deductions"
    /\ last.status = 201
    /\ "status" \notin DOMAIN last.body
    /\ last'.op = "GET /deductions"
    /\ EqualIgnoringCase(last'.param, last.json.walletAddress)

C7_InvalidPostChangesNothing ==
    [][/\ (/\ last'.op = "POST /deductions"
           /\ ~PassesSchema(last'.body, DeductionSchemaRequired)) =>
              /\ last'.status = 400
              /\ last'.json.message = "Validation error"
              /\ ("amount" \notin DOMAIN last'.body => "amount" \in last'.json.at)
              /\ UNCHANGED storeVars
       /\ (/\ last'.op = "POST /transactions"
           /\ ~PassesSchema(last'.body, TransactionSchemaRequired)) =>
              /\ last'.status = 400
              /\ last'.json.message = "Validation error"
              /\ ("amount" \notin DOMAIN last'.body => "amount" \in last'.json.at)
              /\ UNCHANGED storeVars
       /\ (last'.op = "POST /deductions" /\ last'.status = 201) =>
              last'.json.id = deductionId
       /\ (last'.op = "POST /transactions" /\ last'.status = 201) =>
              last'.json.id = transactionId
      ]_vars

\* a POST /api/deductions without amount answered 400 while a deduction is stored
C7_Witness ==
    /\ last.op = "POST /deductions"
    /\ "amount" \notin DOMAIN last.body
    /\ last.status = 400
    /\ scheduledDeductions # <<>>

\* the decimal numeral of k
Numeral(k) == <<DigitChar(k)>>

\* C8: a DELETE /api/deductions/:id of an id not in the store answers 404 and
\* leaves the deductions unchanged; of an id in the store it answers 204, the id
\* is gone afterwards and every other deduction is unchanged.
C8_DeleteAnswers ==
    [][\A k \in 1..(MaxDeductions + 1) :
         (last'.op = "DELETE /deductions" /\ last'.param = Numeral(k)) =>
            IF ~MapHas(scheduledDeductions, k)
            THEN /\ last'.status = 404
                 /\ scheduledDeductions' = scheduledDeductions
            ELSE /\ last'.status = 204
                 /\ MapKeys(scheduledDeductions') = MapKeys(scheduledDeductions) \ {k}
                 /\ Len(scheduledDeductions') = Len(scheduledDeductions) - 1
                 /\ \A j \in MapKeys(scheduledDeductions') :
                        MapGet(scheduledDeductions', j) = MapGet(scheduledDeductions, j)
      ]_vars

\* a DELETE of an unknown id answered 404 while deductions are stored
C8_Witness ==
    /\ last.op = "DELETE /deductions"
    /\ last.status = 404
    /\ scheduledDeductions # <<>>

\* C9: no request removes or changes a stored transaction: every transaction in
\* the store is there after each step with the value it had.
C9_TransactionsImmutable ==
    [][/\ Len(transactions') >= Len(transactions)
       /\ \A k \in MapKeys(transactions) :
              /\ MapHas(transactions', k)
              /\ MapGet(transactions', k) = MapGet(transactions, k)
      ]_vars

\* a transaction is stored and the deduction it references was just deleted
C9_Witness ==
    /\ last.op = "DELETE /deductions"
    /\ last.status = 204
    /\ transactions # <<>>
    /\ ~MapHas(scheduledDeductions, transactions[1].value.deductionId)
    /\ transactions[1].value.deductionId \in Elems(issued)

----------------------------------------------------------------------------
(* Properties of the approval flow *)

\* the flows whose transaction was posted
Posted == {f \in 1..MaxFlows : flows[f].transaction # None}

\* C10: in every approval flow the deduction is posted, with status approved,
\* only in a step taken when scheduleDeduction had resolved with a hash; the
\* transaction is posted only in a step taken when the deduction POST had been
\* answered 201, and it carries the id of that answer, status success and the
\* hash of the flow; the server handles the transaction POST of a flow only
\* after it answered the flow's deduction POST, and the ids that the
\* transactions of different flows carry are different.
C10_CommitStepsInOrder ==
    [][\A f \in 1..MaxFlows :
         /\ (flows[f].deduction = None /\ flows'[f].deduction # None) =>
                /\ flows[f].pc = "scheduling"
                /\ "txHash" \in DOMAIN flows[f].scheduled
                /\ flows'[f].deduction.status = "approved"
                /\ flows'[f].transaction = None
         /\ (flows[f].response = None /\ flows'[f].response # None) =>
                /\ flows[f].deduction # None
                /\ flows[f].transaction = None
         /\ (flows[f].transaction = None /\ flows'[f].transaction # None) =>
                /\ flows[f].response # None
                /\ flows[f].response.status = 201
                /\ MapHas(scheduledDeductions, flows[f].response.json.id)
                /\ flows'[f].transaction.deductionId = flows[f].response.json.id
                /\ flows'[f].transaction.status = "success"
                /\ flows'[f].transaction.txHash = flows[f].scheduled.txHash
                /\ \A g \in Posted \ {f} :
                       flows[g].transaction.deductionId
                           # flows'[f].transaction.deductionId
         /\ (flows[f].transactionResponse = None
                 /\ flows'[f].transactionResponse # None) =>
                /\ flows[f].transaction # None
                /\ flows'[f].transactionResponse.status = 201
                /\ flows'[f].transactionResponse.json.deductionId
                       = flows[f].response.json.id
                /\ flows'[f].transactionResponse.json.txHash
                       = flows[f].scheduled.txHash
                /\ MapGet(scheduledDeductions,
                          flows[f].response.json.id).status = "approved"
      ]_vars

\* two flows in flight at once have both finished; the flow invoked second had
\* its deduction saved first, and each transaction carries its own flow's id
C10_Witness ==
    /\ flows[1].pc = "done"
    /\ flows[2].pc = "done"
    /\ flows[1].response.json.id = 2
    /\ flows[2].response.json.id = 1
    /\ \E i, j \in 1..Len(transactions) :
           /\ transactions[i].value.deductionId = 2
           /\ transactions[i].value.txHash = flows[1].scheduled.txHash
           /\ transactions[j].value.deductionId = 1
           /\ transactions[j].value.txHash = flows[2].scheduled.txHash

\* the flows whose deduction POST, and whose transaction POST, the server handled
DeductionHandled == {f \in 1..MaxFlows : flows[f].response # None}

TransactionHandled == {f \in 1..MaxFlows : flows[f].transactionResponse # None}

\* the message of the failure a flow ends with: the error scheduleDeduction
\* rejected with, or the error of the request that did not get through
FailureMessage(flow) ==
    IF flow.pc = "scheduling" THEN flow.scheduled.error ELSE "Failed to fetch"

\* C11: the step in which a flow fails emits an error notification with the
\* message of the failure, leaves the draft and the store as they are, and is
\* the last step of the flow: a flow that failed at scheduleDeduction posted
\* nothing, one that failed at the deduction POST posted no transaction, and
\* the store holds one deduction per handled deduction POST and one transaction
\* per handled transaction POST; no step of a flow other than its successful
\* end changes the draft or emits a success notification.
C11_FailureStopsTheFlow ==
    [][\A f \in 1..MaxFlows :
         /\ (flows[f].pc # "failed" /\ flows'[f].pc = "failed") =>
                /\ notification'.type = "error"
                /\ notification'.message = FailureMessage(flows[f])
                /\ formData' = formData
                /\ UNCHANGED storeVars
                /\ flows[f].pc = "scheduling" =>
                       flows'[f].deduction = None /\ flows'[f].transaction = None
                /\ flows[f].pc = "postingDeduction" =>
                       flows'[f].response = None /\ flows'[f].transaction = None
                /\ flows[f].pc = "postingTransaction" =>
                       flows'[f].transactionResponse = None
         /\ flows[f].pc = "failed" => flows'[f] = flows[f]
         /\ (flows'[f] # flows[f] /\ flows'[f].pc # "done") =>
                /\ formData' = formData
                /\ notification' = notification \/ notification'.type # "success"
         /\ Len(scheduledDeductions') = Cardinality(DeductionHandled')
         /\ Len(transactions') = Cardinality(TransactionHandled')
      ]_vars

\* a flow failed at its transaction POST with an edited draft: its deduction is
\* stored, no transaction is, and the draft is as it was
C11_Witness ==
    /\ flows[1].pc = "failed"
    /\ flows[1].response # None
    /\ flows[1].transaction # None
    /\ notification.type = "error"
    /\ formData = flows[1].formData
    /\ formData # defaultFormData
    /\ Len(scheduledDeductions) = 1
    /\ transactions = <<>>

----------------------------------------------------------------------------
(* Properties of cancelDeduction *)

\* the order of the steps of cancelDeduction, and what a failure leaves: the
\* DELETE is sent only after the adapter's cancelDeduction resolved, the list
\* is invalidated only after the DELETE was answered 204, a failure emits an
\* error notification, changes nothing in the store and ends the invocation
CancelStepsInOrder(c) ==
    /\ (cancels[c].pc # "deleting" /\ cancels'[c].pc = "deleting") =>
           /\ cancels[c].pc = "cancelling"
           /\ cancels[c].cancelled = [ok |-> TRUE]
    /\ (cancels[c].response = None /\ cancels'[c].response # None) =>
           /\ cancels[c].cancelled = [ok |-> TRUE]
           /\ last'.op = "DELETE /deductions"
           /\ last'.param = Numeral(cancels[c].id)
    /\ (cancels[c].pc # "done" /\ cancels'[c].pc = "done") =>
           /\ cancels[c].response # None
           /\ cancels[c].response.status = 204
           /\ <<"/api/deductions/", cancels[c].address>> \in invalidated'
    /\ (cancels[c].pc # "failed" /\ cancels'[c].pc = "failed") =>
           /\ notification'.type = "error"
           /\ UNCHANGED storeVars
           /\ UNCHANGED invalidated
    /\ cancels[c].pc = "failed" => cancels'[c] = cancels[c]

\* C12 as stated: the steps are in order, and when the adapter call or the
\* DELETE fails the deduction with that id is in the store, unchanged.
C12_FailedCancelKeepsRecordAsStated ==
    [][/\ (invalidated' # invalidated =>
               \E c \in 1..MaxCancels : cancels'[c].pc = "done" /\ cancels[c].pc # "done")
       /\ \A c \in 1..MaxCancels :
              /\ CancelStepsInOrder(c)
              /\ (cancels[c].pc # "failed" /\ cancels'[c].pc = "failed") =>
                     MapHas(scheduledDeductions', cancels[c].id)
      ]_vars

\* C12 amended: the steps are in order, and when the adapter call or the
\* DELETE fails the store is unchanged: the deduction with that id is in the
\* store, unchanged, if it was there when the invocation failed (a DELETE
\* answered 404 fails because it was not).
C12_FailedCancelChangesNothing ==
    [][/\ (invalidated' # invalidated =>
               \E c \in 1..MaxCancels : cancels'[c].pc = "done" /\ cancels[c].pc # "done")
       /\ \A c \in 1..MaxCancels :
              /\ CancelStepsInOrder(c)
              /\ (cancels[c].pc # "failed" /\ cancels'[c].pc = "failed") =>
                     (MapHas(scheduledDeductions, cancels[c].id) =>
                          /\ MapHas(scheduledDeductions', cancels[c].id)
                          /\ MapGet(scheduledDeductions', cancels[c].id)
                                 = MapGet(scheduledDeductions, cancels[c].id))
      ]_vars

\* one invocation failed at the adapter while its closure had an address, and
\* the deduction is in the store; a later one for the same id passed the
\* adapter and has its DELETE on the way
C12_Witness ==
    /\ cancels[1].pc = "failed"
    /\ "error" \in DOMAIN cancels[1].cancelled
    /\ MapHas(scheduledDeductions, cancels[1].id)
    /\ cancels[2].pc = "deleting"
    /\ cancels[2].id = cancels[1].id

----------------------------------------------------------------------------
(* Properties of submitDeduction *)

\* an amount that is a decimal number greater than 0
PositiveNumber(amount) ==
    /\ ~parseFloat(amount).nan
    /\ ~AtMostZero(parseFloat(amount))

\* the draft and wallet with which the confirmation step may open
MayOpen ==
    /\ ~NoAddress(wallet.address)
    /\ formData.amount # <<>>
    /\ PositiveNumber(formData.amount)
    /\ formData.interval # "null"

\* C13 as stated: submitDeduction opens the confirmation step only with an
\* address, a non-empty amount that parses to a number greater than 0 and an
\* interval; in every other case the step stays as it is and an error
\* notification is emitted; it never calls the adapter or the API and leaves
\* the draft and the store unchanged.
C13_SubmitOpensOnlyWhenValid ==
    [][SubmitDeduction =>
         /\ IF MayOpen
            THEN showApprovalModal' /\ notification' = notification
            ELSE /\ showApprovalModal' = showApprovalModal
                 /\ notification'.type = "error"
         /\ UNCHANGED <<formData, adapter, flows, cancels, last, issued>>
         /\ UNCHANGED storeVars
      ]_vars

\* the confirmation step is open over a draft whose amount is no number
C13_OpenedWithoutNumber ==
    /\ showApprovalModal
    /\ parseFloat(formData.amount).nan

----------------------------------------------------------------------------
(* Properties of the adapter *)

\* C14 as stated: after disconnect() the provider, the signer, the deduction
\* contract, the ERC-20 contract, the selected token address and the
\* supported-token list are all cleared, and isConnected() is false.
C14_DisconnectClearsEverything ==
    last.op = "disconnect" =>
        /\ ~adapter.provider
        /\ ~adapter.signer
        /\ ~adapter.deductionContract
        /\ ~adapter.erc20Contract
        /\ adapter.tokenAddress = NullToken
        /\ adapter.supportedTokens = <<>>
        /\ ~isConnected

\* the adapter right after disconnect() still has a token address and the
\* supported tokens of the chain it was connected to
C14_SelectionKept ==
    /\ last.op = "disconnect"
    /\ ~isConnected
    /\ adapter.tokenAddress = "0xt1"
    /\ adapter.supportedTokens # <<>>

NotConnectedError == [error |-> "Wallet not connected"]

NoTokenError ==
    [error |-> "No token selected. Please select a token for the deduction."]

\* C15 as stated: scheduleDeduction fails with the not-connected error whenever
\* there is no active session, with the no-token-selected error whenever there
\* is a session and no token contract is bound, and otherwise returns a
\* transaction identifier; it changes no adapter state and nothing in the store.
C15_ScheduleOutcomesAsStated ==
    [][last'.op = "scheduleDeduction" =>
         /\ IF ~isConnected THEN last'.ret = NotConnectedError
            ELSE IF ~adapter.erc20Contract THEN last'.ret = NoTokenError
            ELSE "txHash" \in DOMAIN last'.ret
         /\ UNCHANGED adapter
         /\ UNCHANGED storeVars
      ]_vars

\* C15 amended: without a session the not-connected error; with a session the
\* no-token-selected error when no token contract is bound or the recorded
\* token address is empty; otherwise a transaction identifier when the amount
\* is a decimal number with no more digits after the point than the token has
\* decimals, and the error of the conversion when it is not; no adapter state
\* and nothing in the store changes.
C15_ScheduleOutcomes ==
    [][last'.op = "scheduleDeduction" =>
         /\ IF ~isConnected THEN last'.ret = NotConnectedError
            ELSE IF ~adapter.erc20Contract \/ adapter.tokenAddress \in {NullToken, ""}
            THEN last'.ret = NoTokenError
            ELSE IF /\ last'.arg # <<>>
                    /\ \A i \in 1..Len(last'.arg) :
                           last'.arg[i] \in {"0", "1", "5", "."}
                    /\ FractionLength(last'.arg) <=
                           (IF adapter.tokenAddress = "0xt1" /\ adapter.supportedTokens # <<>>
                            THEN 6 ELSE 18)
            THEN "txHash" \in DOMAIN last'.ret /\ last'.ret.txHash \in TxHashes
            ELSE /\ "error" \in DOMAIN last'.ret
                 /\ last'.ret \notin {NotConnectedError, NoTokenError}
         /\ UNCHANGED adapter
         /\ UNCHANGED storeVars
      ]_vars

\* scheduleDeduction was called with a session while a token address chosen
\* before the connect is recorded and no token contract is bound
C15_Witness ==
    /\ last.op = "scheduleDeduction"
    /\ isConnected
    /\ adapter.tokenAddress = "0xt1"
    /\ ~adapter.erc20Contract
    /\ last.ret = NoTokenError

----------------------------------------------------------------------------
(* Properties of the wallet context *)

Disconnected == ~wallet.isConnected /\ ~wallet.isConnecting
Connecting == ~wallet.isConnected /\ wallet.isConnecting
Connected == wallet.isConnected

\* what disconnectWallet leaves behind
WalletCleared ==
    /\ ~wallet.isConnected
    /\ wallet.address = NullAddress
    /\ wallet.network = "null"
    /\ wallet.balanceSymbol = NullToken
    /\ wallet.selectedToken = NullToken
    /\ ~isConnected

----------------------------------------------------------------------------
(* Properties of getAllTokenBalances *)

\* the entry of the native coin
NativeEntry == [symbol |-> "MATIC"]

\* the supported tokens whose balance was read, in supported-token order
TokensRead == SelectSeq(last.supportedTokens, LAMBDA t : t \notin last.failing)

\* the addresses of the entries of a list of balances that have one
AddressesOf(balances) ==
    [i \in 1..Len(balances) |-> balances[i].address]

\* C17 as stated: while connected the list starts with the native balance and
\* goes on with the entries of the supported tokens whose balance was read,
\* in supported-token order.
C17_BalancesAsStated ==
    (last.op = "getAllTokenBalances" /\ last.connected) =>
        /\ last.ret # <<>>
        /\ Head(last.ret) = NativeEntry
        /\ AddressesOf(Tail(last.ret)) = TokensRead

\* C17: while connected with at least one supported token the list is the
\* native balance, unless reading it failed, followed by the entries of the
\* supported tokens whose balance was read, in supported-token order, so
\* that a failure leaves out its own entry only; with no supported token the
\* list is empty.
C17_Balances ==
    (last.op = "getAllTokenBalances" /\ last.connected) =>
        LET tokens == IF last.ret # <<>> /\ Head(last.ret) = NativeEntry
                      THEN Tail(last.ret) ELSE last.ret
        IN  IF last.supportedTokens = <<>> THEN last.ret = <<>>
            ELSE /\ (last.ret # <<>> /\ Head(last.ret) = NativeEntry)
                        <=> ~last.nativeFails
                 /\ \A i \in 1..Len(tokens) : "address" \in DOMAIN tokens[i]
                 /\ AddressesOf(tokens) = TokensRead
                 /\ \A i \in 1..Len(tokens) :
                        tokens[i].symbol = TokenSymbol(tokens[i].address)

\* the first supported token could not be read and the two after it are
\* listed behind the native balance
C17_Witness ==
    /\ last.op = "getAllTokenBalances"
    /\ last.connected
    /\ last.failing = {TokenTable[1]}
    /\ Len(last.ret) = 3
    /\ Head(last.ret) = NativeEntry
    /\ AddressesOf(Tail(last.ret)) = Tail(TokenTable)

----------------------------------------------------------------------------
(* Properties of the handlers of PATCH and DELETE run step by step *)

\* the handler of request r sends its response in this step
Answers(r) == requests[r].pc # "answered" /\ requests'[r].pc = "answered"

\* C18 as stated: a PATCH answers 200 only with the merged record of a
\* deduction that the store has when the update is applied, and answers 404
\* when the store does not have the id, whatever other handlers did between
\* its lookup and its update.
C18_PatchAnswersAsStated ==
    [][\A r \in 1..MaxRequests :
           (Answers(r) /\ requests'[r].method = "PATCH"
                /\ ~isNaN(parseInt(requests'[r].param))) =>
               LET id == requests'[r].id
                   response == requests'[r].response
               IN  /\ response.status = 200 =>
                          /\ MapHas(scheduledDeductions, id)
                          /\ response.json = UpdatedDeduction(id, requests'[r].body)
                          /\ MapGet(scheduledDeductions', id) = response.json
                   /\ ~MapHas(scheduledDeductions, id) => response.status = 404
      ]_vars

\* a PATCH was answered 200 with no record, its deduction having been removed
\* by a DELETE after its lookup
C18_AnsweredWithoutRecord ==
    \E r, d \in 1..MaxRequests :
        /\ requests[r].method = "PATCH"
        /\ requests[r].pc = "answered"
        /\ requests[r].response = Response(200, Undefined)
        /\ requests[d].method = "DELETE"
        /\ requests[d].id = requests[r].id
        /\ requests[d].response = Response(204, Undefined)

\* request r is a DELETE of deduction id, which had been created when the
\* request arrived
DeleteOf(r, id) ==
    /\ requests[r].method = "DELETE"
    /\ requests[r].created
    /\ requests[r].pc # "idle"
    /\ ~isNaN(parseInt(requests[r].param))
    /\ requests[r].id = id

\* request r is a DELETE of deduction id that has answered with status
DeleteAnswered(r, id, status) ==
    /\ DeleteOf(r, id)
    /\ requests[r].pc = "answered"
    /\ requests[r].response.status = status

\* the entries of a Map other than the one of key k
Others(map, k) == SelectSeq(map, LAMBDA e : e.key # k)

\* C19: of two DELETE requests for one id that was created, whose handler
\* steps interleave in any way, exactly one answers 204; a DELETE that answers
\* after another has removed the deduction answers 404 when its lookup came
\* after the removal and 500 when its lookup came before it; the step that
\* answers 204 removes the deduction and leaves every other deduction, every
\* transaction and every user as it was.
C19_TwoDeletes ==
    /\ [](\A id \in Elems(issued) : \A r1, r2 \in 1..MaxRequests :
              (/\ r1 # r2
               /\ \E s \in {204, 404, 500} : DeleteAnswered(r1, id, s)
               /\ \E s \in {204, 404, 500} : DeleteAnswered(r2, id, s)
               /\ \A r \in 1..MaxRequests \ {r1, r2} :
                      ~(requests[r].method = "DELETE" /\ requests[r].id = id)) =>
                  /\ DeleteAnswered(r1, id, 204) # DeleteAnswered(r2, id, 204)
                  /\ ~MapHas(scheduledDeductions, id))
    /\ [][\A r \in 1..MaxRequests :
             (Answers(r) /\ requests'[r].method = "DELETE"
                  /\ requests'[r].created) =>
                 LET id == requests'[r].id
                     removed == \E d \in 1..MaxRequests \ {r} :
                                    DeleteAnswered(d, id, 204)
                     lookedUp == requests[r].pc = "found"
                 IN  /\ requests'[r].response.status =
                            IF ~removed THEN 204
                            ELSE IF lookedUp THEN 500 ELSE 404
                     /\ ~MapHas(scheduledDeductions', id)
                     /\ Others(scheduledDeductions', id)
                            = Others(scheduledDeductions, id)
                     /\ transactions' = transactions
                     /\ users' = users
         ]_vars

\* two DELETEs of one deduction have looked it up before either removed it:
\* one has answered 204 and the other 500, and the other deduction and the
\* transaction of the removed one are in the store
C19_Witness ==
    \E r1, r2 \in 1..MaxRequests :
        /\ DeleteAnswered(r1, 1, 204)
        /\ DeleteAnswered(r2, 1, 500)
        /\ ~MapHas(scheduledDeductions, 1)
        /\ MapHas(scheduledDeductions, 2)
        /\ Len(transactions) = 1

----------------------------------------------------------------------------
(* Properties of the :id path parameter *)

\* the whole parameter is an integer
IsInteger(param) ==
    /\ param # <<>>
    /\ \A i \in 1..Len(param) : IsDigit(param[i])

\* C20 as stated: a PATCH or DELETE whose :id parameter is not an integer is
\* answered 400 and changes nothing in the store.
C20_InvalidIdAnswers400 ==
    [][(/\ last'.op \in {"PATCH /deductions", "DELETE /deductions"}
        /\ ~IsInteger(last'.param)) =>
           /\ last'.status = 400
           /\ UNCHANGED storeVars
      ]_vars

\* DELETE /api/deductions/1x has removed deduction 1
C20_DeletedByPrefix ==
    /\ last.op = "DELETE /deductions"
    /\ last.param = <<"1", "x">>
    /\ last.status = 204
    /\ ~MapHas(scheduledDeductions, 1)
    /\ 1 \in Elems(issued)

----------------------------------------------------------------------------
(* Properties of approval flows that run side by side *)

\* the stored transactions that name deduction id
TransactionsOf(id) ==
    {i \in 1..Len(transactions) : transactions[i].value.deductionId = id}

\* C21: whenever two invocations of approveDeduction have both run to their
\* end, the second invoked before the first had ended or not, the store has
\* a deduction record for each, under distinct ids, and for each of the two
\* deductions exactly one transaction record that names it.
C21_DuplicateSubmissions ==
    \A f, g \in 1..MaxFlows :
        (f # g /\ flows[f].pc = "done" /\ flows[g].pc = "done") =>
            LET id1 == flows[f].response.json.id
                id2 == flows[g].response.json.id
            IN  /\ id1 # id2
                /\ MapHas(scheduledDeductions, id1)
                /\ MapHas(scheduledDeductions, id2)
                /\ Cardinality(TransactionsOf(id1)) = 1
                /\ Cardinality(TransactionsOf(id2)) = 1

\* approveDeduction was invoked twice for one draft, and the second
\* invocation had its deduction stored before the first: both have ended,
\* with two deductions and two transactions in the store
C21_Witness ==
    /\ flows[1].pc = "done"
    /\ flows[2].pc = "done"
    /\ flows[1].formData = flows[2].formData
    /\ flows[1].address = flows[2].address
    /\ flows[2].response.json.id < flows[1].response.json.id
    /\ Len(scheduledDeductions) = 2
    /\ Len(transactions) = 2

\* the three commit steps of flow f have succeeded and its transaction is in
\* the store
Committed(f) ==
    /\ "txHash" \in DOMAIN flows[f].scheduled
    /\ Ok(flows[f].response)
    /\ Ok(flows[f].transactionResponse)
    /\ \E i \in 1..Len(transactions) :
           /\ transactions[i].value = flows[f].transactionResponse.json
           /\ transactions[i].value.deductionId = flows[f].response.json.id
           /\ transactions[i].value.txHash = flows[f].scheduled.txHash

\* C22: the step that follows the answer to a successful transaction POST
\* invalidates the deduction list and the transaction list of the flow's
\* wallet address, shows the success notification and sets the draft to an
\* empty amount, no interval and duration 3; the invalidated keys grow and a
\* success notification appears in no step but that of a flow whose
\* transaction record is in the store.
C22_SuccessPath ==
    [][/\ \A f \in 1..MaxFlows :
             (/\ flows[f].pc = "transactionAnswered"
              /\ flows'[f].pc # "transactionAnswered"
              /\ Ok(flows[f].transactionResponse)) =>
                 /\ flows'[f].pc = "done"
                 /\ {<<"/api/deductions/", flows[f].address>>,
                      <<"/api/transactions/", flows[f].address>>}
                        \subseteq invalidated'
                 /\ notification'.type = "success"
                 /\ formData'.amount = <<>>
                 /\ formData'.interval = "null"
                 /\ formData'.duration = "3"
                 /\ formData' = defaultFormData
       /\ (\/ invalidated' # invalidated
           \/ (notification' # notification /\ notification'.type = "success")) =>
              \E f \in 1..MaxFlows :
                  /\ flows[f].pc = "transactionAnswered"
                  /\ flows'[f].pc = "done"
                  /\ Committed(f)
      ]_vars

\* a flow has ended on its success path: both lists of its wallet are
\* invalidated, the success notification is shown and the draft, which had an
\* amount and an interval, is back to its default values
C22_Witness ==
    \E f \in 1..MaxFlows :
        /\ flows[f].pc = "done"
        /\ Committed(f)
        /\ flows[f].formData.amount # <<>>
        /\ flows[f].formData.interval # "null"
        /\ invalidated = {<<"/api/deductions/", flows[f].address>>,
                          <<"/api/transactions/", flows[f].address>>}
        /\ notification.type = "success"
        /\ formData = defaultFormData

\* flow f has failed after its deduction POST had succeeded
FailedAfterDeduction(f) ==
    /\ flows[f].pc = "failed"
    /\ flows[f].response # None
    /\ Ok(flows[f].response)

\* flow f has failed after scheduleDeduction had returned an identifier and
\* before any deduction POST of it succeeded
FailedAfterSchedule(f) ==
    /\ flows[f].pc = "failed"
    /\ "txHash" \in DOMAIN flows[f].scheduled
    /\ flows[f].response = None \/ ~Ok(flows[f].response)

\* no other invocation drew the transaction identifier of flow f
OwnIdentifier(f) ==
    \A g \in 1..MaxFlows \ {f} :
        "txHash" \in DOMAIN flows[g].scheduled =>
            flows[g].scheduled.txHash # flows[f].scheduled.txHash

\* C23: a flow that failed after its deduction POST succeeded leaves that
\* deduction in the store with status approved and with no transaction that
\* names it; a flow that failed after scheduleDeduction succeeded and before
\* its deduction was stored leaves no transaction with its transaction
\* identifier (the identifiers of different invocations being different);
\* the step in which a flow fails changes nothing in the store,
\* and a flow that has failed takes no further step.
C23_NoRollbackNoRetry ==
    /\ [](\A f \in 1..MaxFlows :
              /\ FailedAfterDeduction(f) =>
                     LET id == flows[f].response.json.id
                     IN  /\ MapHas(scheduledDeductions, id)
                         /\ MapGet(scheduledDeductions, id).status = "approved"
                         /\ MapGet(scheduledDeductions, id) = flows[f].response.json
                         /\ TransactionsOf(id) = {}
              /\ (FailedAfterSchedule(f) /\ OwnIdentifier(f)) =>
                     \A i \in 1..Len(transactions) :
                         "txHash" \in DOMAIN transactions[i].value =>
                             transactions[i].value.txHash
                                 # flows[f].scheduled.txHash)
    /\ [][\A f \in 1..MaxFlows :
             /\ (flows[f].pc # "failed" /\ flows'[f].pc = "failed") =>
                    UNCHANGED storeVars
             /\ flows[f].pc = "failed" => flows'[f] = flows[f]
         ]_vars

\* one flow has failed at its transaction POST and its approved deduction is
\* in the store without a transaction; another has failed at its deduction
\* POST with an identifier from scheduleDeduction that no record carries
C23_Witness ==
    \E f, g \in 1..MaxFlows :
        /\ FailedAfterDeduction(f)
        /\ MapHas(scheduledDeductions, flows[f].response.json.id)
        /\ transactions = <<>>
        /\ FailedAfterSchedule(g)
        /\ flows[g].deduction # None
        /\ OwnIdentifier(g)
        /\ Len(scheduledDeductions) = 1

----------------------------------------------------------------------------
(* Properties of the supported tokens *)

\* C24 as stated: after a connect that returned an account the supported
\* tokens are the entries of TESTNET_TOKENS for the chain connected to, none
\* when the chain is not in the table.
C24_TokensOfTheChainAsStated ==
    (last.op = "connect" /\ "ret" \in DOMAIN last) =>
        adapter.supportedTokens =
            (CASE last.chainId = "0x13881" -> <<"0xt1", "0xdai", "0xwmatic">>
               [] last.chainId = "0x5" -> <<"0xgusdc", "0xgdai", "0xglink">>
               [] OTHER -> <<>>)

\* connect has returned an account on a chain without an entry in the table,
\* and the adapter lists the tokens of Mumbai
C24_TokensOfAnotherChain ==
    /\ last.op = "connect"
    /\ "ret" \in DOMAIN last
    /\ last.chainId = "0x1"
    /\ adapter.supportedTokens = TokenTable
    /\ isConnected

----------------------------------------------------------------------------
(* Properties of PATCH requests run side by side *)

\* request r is a PATCH of deduction id that was answered with the merged
\* record
PatchApplied(r, id) ==
    /\ requests[r].method = "PATCH"
    /\ requests[r].pc = "answered"
    /\ requests[r].id = id
    /\ requests[r].response.status = 200
    /\ requests[r].response.json # Undefined

\* the record under id is what results from the update of request first
\* followed by the update of request second
LastWriteWins(id, first, second) ==
    LET record == MapGet(scheduledDeductions, id)
    IN  /\ record = requests[second].response.json
        /\ \A k \in DOMAIN requests[second].body :
               record[k] = requests[second].body[k]
        /\ \A k \in (DOMAIN requests[first].body) \ (DOMAIN requests[second].body) :
               record[k] = requests[first].body[k]
        /\ \A k \in (DOMAIN record) \ ((DOMAIN requests[first].body)
                                           \cup (DOMAIN requests[second].body)) :
               record[k] = requests[first].response.json[k]

\* C25: after two PATCHes of one stored deduction, the only ones of that
\* deduction, were applied with their handler steps in any order, the record
\* has for each field of the body applied last that body's value, for each
\* field that only the other body has the other body's value, and for every
\* other field the value it had; and each update leaves every field that
\* its body does not have as it is in the store at that moment.
C25_LastWriteWins ==
    /\ [](\A id \in 1..MaxDeductions : \A r1, r2 \in 1..MaxRequests :
              (/\ r1 # r2
               /\ PatchApplied(r1, id)
               /\ PatchApplied(r2, id)
               /\ MapHas(scheduledDeductions, id)
               /\ \A r \in 1..MaxRequests \ {r1, r2} :
                      ~(requests[r].method = "PATCH" /\ requests[r].id = id
                            /\ requests[r].pc = "answered")) =>
                  LastWriteWins(id, r1, r2) \/ LastWriteWins(id, r2, r1))
    /\ [][\A r \in 1..MaxRequests :
             (Answers(r) /\ requests'[r].method = "PATCH"
                  /\ requests'[r].response.status = 200
                  /\ MapHas(scheduledDeductions, requests'[r].id)) =>
                 LET id == requests'[r].id
                     before == MapGet(scheduledDeductions, id)
                     after == MapGet(scheduledDeductions', id)
                 IN  /\ DOMAIN after = (DOMAIN before) \cup (DOMAIN requests'[r].body)
                     /\ \A k \in DOMAIN requests'[r].body :
                            after[k] = requests'[r].body[k]
                     /\ \A k \in (DOMAIN before) \ (DOMAIN requests'[r].body) :
                            after[k] = before[k]
         ]_vars

\* two PATCHes of deduction 1 were applied: the record has the status of the
\* one applied last and the amount that only the other one set
C25_Witness ==
    \E r1, r2 \in 1..MaxRequests :
        /\ r1 # r2
        /\ PatchApplied(r1, 1)
        /\ PatchApplied(r2, 1)
        /\ requests[r1].body = [status |-> "paused", amount |-> <<"2", "0">>]
        /\ requests[r2].body = [status |-> "cancelled"]
        /\ MapHas(scheduledDeductions, 1)
        /\ MapGet(scheduledDeductions, 1).status = "cancelled"
        /\ MapGet(scheduledDeductions, 1).amount = <<"2", "0">>

----------------------------------------------------------------------------
(* Properties of the keys of the store *)

\* C26 as stated: every deduction of the store has as its id the key it is
\* stored under.
C26_IdIsKey ==
    \A i \in 1..Len(scheduledDeductions) :
        scheduledDeductions[i].value.id = scheduledDeductions[i].key

\* a PATCH with an id in its body was answered 200 and the deduction under
\* key 1 has id 2
C26_IdOverwritten ==
    /\ last.op = "PATCH /deductions"
    /\ last.status = 200
    /\ "id" \in DOMAIN last.body
    /\ MapHas(scheduledDeductions, 1)
    /\ MapGet(scheduledDeductions, 1).id = 2

----------------------------------------------------------------------------
(* Properties of the wallet context and the adapter together *)

\* C27 as stated: whenever the wallet context has isConnected true, the
\* adapter has its provider and its signer.
C27_ConnectedMeansSession ==
    wallet.isConnected => (adapter.provider /\ adapter.signer)

\* connectWallet has set isConnected after an accountsChanged event without
\* accounts had cleared the adapter during its await
C27_ConnectedWithoutSession ==
    /\ wallet.isConnected
    /\ wallet.address \in Accounts
    /\ ~adapter.provider
    /\ ~adapter.signer
    /\ ~isConnected

----------------------------------------------------------------------------
(* Properties of isSubmitting *)

\* the invocation f of approveDeduction has started and not ended
InFlight(f) == flows[f].pc \notin {"idle", "done", "failed"}

\* C28 as stated: isSubmitting is true exactly while some approval flow is
\* between its start and its end.
C28_SubmittingWhileInFlight ==
    isSubmitting <=> \E f \in 1..MaxFlows : InFlight(f)

\* the first of two flows has ended and isSubmitting is false while the
\* second is waiting for the answer to its deduction POST
C28_NotSubmittingInFlight ==
    /\ ~isSubmitting
    /\ flows[1].pc \in {"done", "failed"}
    /\ flows[2].pc = "postingDeduction"

----------------------------------------------------------------------------
(* C29 *)

\* the deduction record the store holds for a flow
StoredDeduction(f) == MapGet(scheduledDeductions, flows[f].response.json.id)

\* the transaction record the store holds for a flow
StoredTransaction(f) == MapGet(transactions, flows[f].transactionResponse.json.id)

\* what the closure of a flow captured, as a record would carry it
Captured(f) ==
    [walletAddress |-> flows[f].address,
     amount |-> flows[f].formData.amount,
     tokenSymbol |-> flows[f].selectedTokenSymbol,
     tokenAddress |-> IF NoString(flows[f].selectedToken) THEN ""
                      ELSE flows[f].selectedToken]

\* the four fields of a record
Carried(record) ==
    [walletAddress |-> record.walletAddress,
     amount |-> record.amount,
     tokenSymbol |-> record.tokenSymbol,
     tokenAddress |-> record.tokenAddress]

\* C29: the deduction record and the transaction record one approval flow
\* wrote carry the same wallet address, amount, token symbol and token
\* address, and these are the values the wallet and the draft had when
\* approveDeduction was invoked, whatever happened to the draft, the selected
\* token and the balance while the flow was in flight.
C29_RecordsCarryTheCapture ==
    /\ [](\A f \in 1..MaxFlows :
             /\ (flows[f].response # None /\ Ok(flows[f].response)) =>
                    Carried(StoredDeduction(f)) = Captured(f)
             /\ (flows[f].transactionResponse # None
                    /\ Ok(flows[f].transactionResponse)) =>
                    /\ Carried(StoredTransaction(f)) = Captured(f)
                    /\ Carried(StoredTransaction(f)) = Carried(StoredDeduction(f)))
    /\ [][\A f \in 1..MaxFlows :
             /\ (flows[f].pc = "idle" /\ flows'[f].pc # "idle") =>
                    Captured(f)' =
                        [walletAddress |-> wallet.address,
                         amount |-> formData.amount,
                         tokenSymbol |-> IF NoString(wallet.balanceSymbol) THEN "ETH"
                                         ELSE wallet.balanceSymbol,
                         tokenAddress |-> IF NoString(wallet.selectedToken) THEN ""
                                          ELSE wallet.selectedToken]
             /\ flows[f].pc # "idle" => Captured(f)' = Captured(f)]_vars

\* a flow has written both records after the amount of the draft, the
\* selected token and the symbol of the balance all changed under it
C29_Witness ==
    \E f \in 1..MaxFlows :
        /\ flows[f].pc = "transactionAnswered"
        /\ Ok(flows[f].transactionResponse)
        /\ Carried(StoredTransaction(f)) = Captured(f)
        /\ formData.amount # flows[f].formData.amount
        /\ wallet.selectedToken # flows[f].selectedToken
        /\ ~NoString(wallet.balanceSymbol)
        /\ wallet.balanceSymbol # flows[f].selectedTokenSymbol
        /\ flows[f].selectedTokenSymbol # "ETH"

----------------------------------------------------------------------------
(* C30 *)

\* C30: in every state of the adapter a token address is recorded exactly
\* when an ERC-20 contract handle is bound, whatever connect, disconnect and
\* setTokenAddress calls came before.
C30_TokenRecordedIffBound ==
    ~NoString(adapter.tokenAddress) <=> adapter.erc20Contract

\* a session is open, a token address is recorded and no ERC-20 contract is
\* bound, and scheduleDeduction has just refused with its no-token error
C30_RecordedButUnbound ==
    /\ adapter.provider
    /\ adapter.signer
    /\ ~NoString(adapter.tokenAddress)
    /\ ~adapter.erc20Contract
    /\ last.op = "scheduleDeduction"
    /\ last.ret = NoTokenError

=============================================================================
